---- MODULE Spec2Model ----
(***************************************************************************)
(* Verification model of the GFA path/walk scan of the pangenome coverage  *)
(* engine (src/src/graph_broker/util.rs): the line-level scanner           *)
(* parse_gfa_paths_walks, the cursor-based updaters update_tables and      *)
(* update_tables_edgecount, and the token-parallel fast path               *)
(* parse_walk_seq_update_tables / parse_path_seq_update_tables.            *)
(***************************************************************************)
EXTENDS Integers, Sequences, FiniteSets, TLC

(***************************************************************************)
(* Bounds of the model.                                                    *)
(***************************************************************************)
\* number of P/W lines of the GFA file (graph_storage.path_segments.len())
MaxPaths == 3
\* longest token stream of one P/W line
MaxTokens == 2
\* largest finite coordinate of a mask interval
MaxCoord == 3
\* most include intervals of one path
MaxIntervals == 2
\* largest start coordinate of a W line
MaxStart == 1
\* number of buckets of the ItemTable (scaled down from the crate's value)
SIZE_T == 2
\* number of segments of the graph; ids are dense and 1-based
NumNodes == 3
\* number of threads of the rayon pool
NumThreads == 2
\* number of lines of the samples file of the rarefaction binary
MaxSamples == 2
\* number of paths/walks one sample has in the GFA file
MaxSamplePaths == 2
\* number of haplotype ids
MaxHaps == 2
\* longest path/walk of the rarefaction binary
MaxSeqLen == 2
\* largest segment id of the rarefaction binary
MaxHandleId == 2
\* longest list of count types of one multiple scan
MaxCountTypes == 2
\* number of P/W lines of the file of the multiple scan
MaxMultiPaths == 2
\* longest threshold list, in characters
MaxThresholdLen == 5
\* largest number of P/W lines and of histogram entries run sees
MaxRunSize == 2
\* largest entry of a coverage histogram of a histgrowth run
MaxHistValue == 2
\* largest number of growth curves of a histgrowth run
MaxCurves == 2

\* the longest list of instructions handed to preprocess_instructions
MaxInstructions == 4

\* the longest list of sections handed to get_tasks
MaxPipeline == 4

\* usize::MAX, the open end of an unbounded span
USIZE_MAX == 1000

Nodes == 1..NumNodes
Buckets == 0..(SIZE_T - 1)
Threads == 1..NumThreads
Orientations == {"Forward", "Backward"}
CountTypes == {"Node", "Bp", "Edge"}

\* GraphStorage::node_len: every segment has length >= 1
node_len(sid) ==
    1 + ((sid + 1) % 3)

(***************************************************************************)
(* Small sequence helpers.                                                 *)
(***************************************************************************)
RECURSIVE SumLen(_)
SumLen(path) ==
    IF path = <<>> THEN 0 ELSE node_len(Head(path)[1]) + SumLen(Tail(path))

RECURSIVE SeqsUpTo(_, _)
SeqsUpTo(S, n) ==
    IF n = 0 THEN {<<>>}
    ELSE LET shorter == SeqsUpTo(S, n - 1)
         IN  shorter \cup {Append(q, x) : q \in {r \in shorter : Len(r) = n - 1}, x \in S}

Range(q) ==
    {q[k] : k \in DOMAIN q}

\* number of occurrences of x in sequence q
RECURSIVE CountIn(_, _)
CountIn(q, x) ==
    IF q = <<>> THEN 0
    ELSE (IF Head(q) = x THEN 1 ELSE 0) + CountIn(Tail(q), x)

(***************************************************************************)
(* util::intersects / util::is_contained over sorted, disjoint half-open   *)
(* intervals.                                                              *)
(***************************************************************************)
intersects(v, el) ==
    \E k \in DOMAIN v : v[k][1] < el[2] /\ v[k][2] > el[1]

is_contained(v, el) ==
    \E k \in DOMAIN v : v[k][1] <= el[1] /\ v[k][2] >= el[2]

(***************************************************************************)
(* ItemTable, IntervalContainer and ActiveTable.                           *)
(***************************************************************************)
\* ItemTable::new(num_paths): empty buckets, zeroed prefix sums
ItemTableNew ==
    [items |-> [b \in Buckets |-> <<>>],
     id_prefsum |-> [b \in Buckets |-> [p \in 0..MaxPaths |-> 0]]]

\* IntervalContainer as the set of covered (node, position) pairs
IntervalContains(int, sid) ==
    \E e \in int : e[1] = sid

IntervalRemove(int, sid) ==
    {e \in int : e[1] # sid}

IntervalAdd(int, sid, a, b) ==
    int \cup {<<sid, x>> : x \in a..(b - 1)}

\* ActiveTable: the flagged ids and, when annotated, the masked positions
ActiveTableNew(annotated) ==
    [items |-> {}, annotated |-> annotated, annotation |-> {}]

activate(t, id) ==
    [t EXCEPT !.items = @ \cup {id}]

activate_n_annotate(t, id, l, a, b) ==
    [t EXCEPT !.items = @ \cup {id},
              !.annotation = @ \cup {<<id, x>> : x \in a..(b - 1)}]

(***************************************************************************)
(* update_tables: the cursor-based slow path for node and bp counting.     *)
(* The loop state s carries the cursors i and j, the offset p, the         *)
(* counters, the three tables and a log of the sub-intervals computed at   *)
(* each append.                                                            *)
(***************************************************************************)
\* the sub-interval without the reversal for Backward tokens
SubInterval_NoReversal(c, p, l, o) ==
    <<IF c[1] > p THEN c[1] - p ELSE 0, IF c[2] < p + l THEN c[2] - p ELSE l>>

\* the sub-interval (a, b) of a token of length l at offset p that lies inside the
\* interval c (util.rs lines 461-478 and 504-521)
SubInterval(c, p, l, o) ==
    LET a == IF c[1] > p THEN c[1] - p ELSE 0
        b == IF c[2] < p + l THEN c[2] - p ELSE l
    IN  IF o = "Backward" THEN <<l - b, l - a>> ELSE <<a, b>>

\* an append that credits the whole node instead of the covered part
IncludeAppend_WholeNode(s, num_path, sid, o, l, s_e, a, b, adv) ==
    LET idx == sid % SIZE_T
    IN  [s EXCEPT
            !.i = IF adv THEN @ + 1 ELSE @,
            !.stop_here = ~adv,
            !.item_table.items[idx] = Append(@, sid),
            !.item_table.id_prefsum[idx][num_path + 1] = @ + 1,
            !.included = @ + 1,
            !.included_bp = @ + l,
            !.log = Append(@, [sid |-> sid, o |-> o, l |-> l, p |-> s.p,
                               s |-> s_e[1], e |-> s_e[2], a |-> a, b |-> b])]

\* one append of sid for include interval k (util.rs lines 480-494)
IncludeAppend(s, num_path, sid, o, l, s_e, a, b, adv) ==
    LET idx == sid % SIZE_T
        int == s.subset_covered_bps
    IN  [s EXCEPT
            !.i = IF adv THEN @ + 1 ELSE @,
            !.stop_here = ~adv,
            !.item_table.items[idx] = Append(@, sid),
            !.item_table.id_prefsum[idx][num_path + 1] = @ + 1,
            !.subset_covered_bps =
                IF ~int.some THEN @
                ELSE IF b - a = l
                     THEN [@ EXCEPT !.v = IF IntervalContains(int.v, sid)
                                          THEN IntervalRemove(int.v, sid)
                                          ELSE int.v]
                     ELSE [@ EXCEPT !.v = IntervalAdd(int.v, sid, a, b)],
            !.included = @ + 1,
            !.included_bp = @ + (b - a),
            !.log = Append(@, [sid |-> sid, o |-> o, l |-> l, p |-> s.p,
                               s |-> s_e[1], e |-> s_e[2], a |-> a, b |-> b])]

\* the while loop over the include cursor i (util.rs lines 458-499)
RECURSIVE IncludeLoop(_, _, _, _, _, _)
IncludeLoop(s, num_path, sid, o, l, include_coords) ==
    IF s.i < Len(include_coords) /\ include_coords[s.i + 1][1] < s.p + l /\ ~s.stop_here
    THEN LET c == include_coords[s.i + 1]
         IN  IF c[2] > s.p
             THEN LET ab == SubInterval(c, s.p, l, o)
                  IN  IncludeLoop(IncludeAppend(s, num_path, sid, o, l, c, ab[1], ab[2],
                                                c[2] < s.p + l),
                                  num_path, sid, o, l, include_coords)
             ELSE IncludeLoop([s EXCEPT !.i = @ + 1], num_path, sid, o, l, include_coords)
    ELSE s

\* one flagging of sid for exclude interval j (util.rs lines 523-531)
ExcludeFlag(s, sid, l, a, b, adv) ==
    LET ex == s.exclude_table
    IN  [s EXCEPT
            !.j = IF adv THEN @ + 1 ELSE @,
            !.stop_here = ~adv,
            !.exclude_table =
                IF ~ex.some THEN @
                ELSE IF ex.v.annotated
                     THEN [@ EXCEPT !.v = activate_n_annotate(ex.v, sid, l, a, b)]
                     ELSE [@ EXCEPT !.v = activate(ex.v, sid)],
            !.excluded = IF ex.some THEN @ + 1 ELSE @]

\* the while loop over the exclude cursor j (util.rs lines 501-535)
RECURSIVE ExcludeLoop(_, _, _, _, _)
ExcludeLoop(s, sid, o, l, exclude_coords) ==
    IF s.j < Len(exclude_coords) /\ exclude_coords[s.j + 1][1] < s.p + l /\ ~s.stop_here
    THEN LET c == exclude_coords[s.j + 1]
         IN  IF c[2] > s.p
             THEN LET ab == SubInterval(c, s.p, l, o)
                  IN  ExcludeLoop(ExcludeFlag(s, sid, l, ab[1], ab[2], c[2] < s.p + l),
                                  sid, o, l, exclude_coords)
             ELSE ExcludeLoop([s EXCEPT !.j = @ + 1], sid, o, l, exclude_coords)
    ELSE s

\* the for loop over the tokens of the path (util.rs lines 429-542)
RECURSIVE TokenLoop(_, _, _, _, _)
TokenLoop(s, num_path, path, include_coords, exclude_coords) ==
    IF path = <<>> THEN s
    ELSE LET sid == Head(path)[1]
             o == Head(path)[2]
             l == node_len(sid)
             s1 == IncludeLoop([s EXCEPT !.stop_here = FALSE], num_path, sid, o, l,
                               include_coords)
             s2 == ExcludeLoop([s1 EXCEPT !.stop_here = FALSE], sid, o, l, exclude_coords)
         IN  IF s2.i >= Len(include_coords) /\ s2.j >= Len(exclude_coords)
             THEN s2
             ELSE TokenLoop([s2 EXCEPT !.p = @ + l], num_path, Tail(path),
                            include_coords, exclude_coords)

\* a closing pass that leaves column num_path + 1 as the per-path count
PrefixSum_NoCarry(item_table, num_path) ==
    item_table

\* the closing pass over the buckets (util.rs lines 552-554 and its copies)
PrefixSum(item_table, num_path) ==
    [item_table EXCEPT !.id_prefsum =
        [b \in Buckets |-> [@[b] EXCEPT ![num_path + 1] = @ + item_table.id_prefsum[b][num_path]]]]

update_tables(tb, num_path, path, include_coords, exclude_coords, offset) ==
    LET s0 == [item_table |-> tb.item_table,
               subset_covered_bps |-> tb.subset_covered_bps,
               exclude_table |-> tb.exclude_table,
               i |-> 0, j |-> 0, p |-> offset,
               included |-> 0, included_bp |-> 0, excluded |-> 0,
               stop_here |-> FALSE, log |-> <<>>]
    IN  IF Len(path) = 0
        THEN [item_table |-> tb.item_table,
              subset_covered_bps |-> tb.subset_covered_bps,
              exclude_table |-> tb.exclude_table,
              ret |-> <<0, 0>>, log |-> <<>>]
        ELSE LET s == TokenLoop(s0, num_path, path, include_coords, exclude_coords)
             IN  [item_table |-> PrefixSum(s.item_table, num_path),
                  subset_covered_bps |-> s.subset_covered_bps,
                  exclude_table |-> s.exclude_table,
                  ret |-> <<s.included, s.included_bp>>, log |-> s.log]

(***************************************************************************)
(* Edges: Edge::canonical and the edge2id map of GraphStorage.  The graph  *)
(* links every two distinct segments in every orientation and has no       *)
(* self-loop link, so a path that repeats a segment walks an unknown edge. *)
(***************************************************************************)
flip(o) ==
    IF o = "Forward" THEN "Backward" ELSE "Forward"

canonical(id1, o1, id2, o2) ==
    IF id1 > id2 \/ (id1 = id2 /\ o1 = "Backward")
    THEN <<id2, flip(o2), id1, flip(o1)>>
    ELSE <<id1, o1, id2, o2>>

OrientBit(o) ==
    IF o = "Forward" THEN 0 ELSE 1

edge2id_contains(e) ==
    e[1] # e[3]

edge2id_get(e) ==
    ((e[1] - 1) * 2 + OrientBit(e[2])) * (2 * NumNodes) + ((e[3] - 1) * 2 + OrientBit(e[4])) + 1

(***************************************************************************)
(* update_tables_edgecount: the cursor-based updater for edge counting.    *)
(***************************************************************************)
\* a cursor that is never advanced
AdvanceCursor_Stay(coords, c, p) ==
    c

\* while cursor < len && coords[cursor].1 <= p { cursor += 1 }
RECURSIVE AdvanceCursor(_, _, _)
AdvanceCursor(coords, c, p) ==
    IF c < Len(coords) /\ coords[c + 1][2] <= p
    THEN AdvanceCursor(coords, c + 1, p)
    ELSE c

\* the for loop over the consecutive token pairs (util.rs lines 580-628)
RECURSIVE EdgeLoop(_, _, _, _, _, _)
EdgeLoop(s, num_path, path, k, include_coords, exclude_coords) ==
    IF k >= Len(path) THEN s
    ELSE LET i == AdvanceCursor(include_coords, s.i, s.p)
             j == AdvanceCursor(exclude_coords, s.j, s.p)
             l == node_len(path[k + 1][1])
             e == canonical(path[k][1], path[k][2], path[k + 1][1], path[k + 1][2])
         IN  IF ~edge2id_contains(e)
             THEN [s EXCEPT !.panicked = TRUE]
             ELSE LET eid == edge2id_get(e)
                      idx == eid % SIZE_T
                      inc == i < Len(include_coords) /\ include_coords[i + 1][1] < s.p + l
                      exc == s.exclude_table.some /\ j < Len(exclude_coords)
                                 /\ exclude_coords[j + 1][1] < s.p + l
                      s1 == [s EXCEPT
                                !.i = i, !.j = j,
                                !.item_table.items[idx] = IF inc THEN Append(@, eid) ELSE @,
                                !.item_table.id_prefsum[idx][num_path + 1] =
                                    IF inc THEN @ + 1 ELSE @,
                                !.exclude_table.v = IF exc THEN activate(@, eid) ELSE @,
                                !.log = Append(@, [k |-> k, eid |-> eid, p |-> s.p, l |-> l,
                                                   appended |-> inc, flagged |-> exc])]
                  IN  IF ~exc /\ i >= Len(include_coords) /\ j >= Len(exclude_coords)
                      THEN s1
                      ELSE EdgeLoop([s1 EXCEPT !.p = @ + l], num_path, path, k + 1,
                                    include_coords, exclude_coords)

update_tables_edgecount(tb, num_path, path, include_coords, exclude_coords, offset) ==
    LET s0 == [item_table |-> tb.item_table,
               exclude_table |-> tb.exclude_table,
               i |-> 0, j |-> 0,
               p |-> IF path # <<>> THEN offset + node_len(path[1][1]) ELSE offset,
               panicked |-> FALSE, log |-> <<>>]
        s == EdgeLoop(s0, num_path, path, 1, include_coords, exclude_coords)
    IN  [item_table |-> PrefixSum(s.item_table, num_path),
         subset_covered_bps |-> tb.subset_covered_bps,
         exclude_table |-> s.exclude_table,
         panicked |-> s.panicked, log |-> s.log]

(***************************************************************************)
(* The fast path, parse_walk_seq_update_tables and                         *)
(* parse_path_seq_update_tables, as one step of the line-level scanner:    *)
(* the workers have pushed the tokens in the order `order` (a permutation  *)
(* of the token positions, the schedule), then the closing pass and the    *)
(* flagging of the path's slice run.                                       *)
(***************************************************************************)
\* workers that append the id without counting it in id_prefsum
RECURSIVE PushAll_NoCount(_, _, _, _)
PushAll_NoCount(item_table, num_path, path, order) ==
    IF order = <<>> THEN item_table
    ELSE LET sid == path[Head(order)][1]
             idx == sid % SIZE_T
         IN  PushAll_NoCount([item_table EXCEPT !.items[idx] = Append(@, sid)],
                             num_path, path, Tail(order))

RECURSIVE PushAll(_, _, _, _)
PushAll(item_table, num_path, path, order) ==
    IF order = <<>> THEN item_table
    ELSE LET sid == path[Head(order)][1]
             idx == sid % SIZE_T
         IN  PushAll([item_table EXCEPT
                         !.items[idx] = Append(@, sid),
                         !.id_prefsum[idx][num_path + 1] = @ + 1],
                     num_path, path, Tail(order))

\* for i in 0..SIZE_T { num_nodes_path += id_prefsum[i][num_path + 1] }
RECURSIVE SumColumn(_, _, _)
SumColumn(item_table, num_path, b) ==
    IF b >= SIZE_T THEN 0
    ELSE item_table.id_prefsum[b][num_path + 1] + SumColumn(item_table, num_path, b + 1)

\* the ids of items[i][id_prefsum[i][num_path] .. id_prefsum[i][num_path + 1]]
SliceIds(item_table, num_path) ==
    UNION {{item_table.items[b][x + 1] :
                x \in item_table.id_prefsum[b][num_path]
                        ..(item_table.id_prefsum[b][num_path + 1] - 1)} : b \in Buckets}

SliceInBounds(item_table, num_path) ==
    \A b \in Buckets :
        item_table.id_prefsum[b][num_path] < item_table.id_prefsum[b][num_path + 1]
            => item_table.id_prefsum[b][num_path + 1] <= Len(item_table.items[b])

parse_seq_update_tables(tb, num_path, path, order, ex_given) ==
    LET pushed == PushAll(tb.item_table, num_path, path, order)
        num_nodes_path == SumColumn(pushed, num_path, 0)
        closed == PrefixSum(pushed, num_path)
    IN  [item_table |-> closed,
         subset_covered_bps |-> tb.subset_covered_bps,
         exclude_table |->
            IF ex_given /\ tb.exclude_table.some
            THEN [tb.exclude_table EXCEPT !.v.items = @ \cup SliceIds(closed, num_path)]
            ELSE tb.exclude_table,
         panicked |-> ex_given /\ tb.exclude_table.some /\ ~SliceInBounds(closed, num_path),
         ret |-> <<num_nodes_path, SumLen(path)>>]

(***************************************************************************)
(* The inputs: P/W lines and the mask of their path.                       *)
(* A line is the parsed PathSegment (its span), the token stream of its    *)
(* last column and the include/exclude intervals the GraphMask holds for   *)
(* its id (<<>> when the id is not in the map).  A P line without          *)
(* coordinates spans [0, usize::MAX); a W line spans [start, start + its   *)
(* length).  A line without tokens is a W line whose walk is a lone '>'    *)
(* (bare = FALSE) or is missing at the end of the file (bare = TRUE).      *)
(***************************************************************************)
Tokens == Nodes \X Orientations

IntervalsUpTo(maxc) ==
    {c \in (0..maxc) \X ((1..maxc) \cup {USIZE_MAX}) : c[1] < c[2]}

\* sorted, pairwise disjoint, non-empty intervals (GraphMask normalisation)
IntervalLists(maxc, n) ==
    {q \in SeqsUpTo(IntervalsUpTo(maxc), n) :
        \A k \in 1..(Len(q) - 1) : q[k][2] <= q[k + 1][1]}

WellFormedLine(line) ==
    /\ line.bare => (line.form = "W" /\ line.tokens = <<>>)
    /\ line.form = "P" => line.start = 0

\* path_seg.coords().unwrap_or((0, usize::MAX))
SpanOf(line) ==
    IF line.form = "P" THEN <<0, USIZE_MAX>>
    ELSE <<line.start, line.start + SumLen(line.tokens)>>

complete ==
    <<(<<0, USIZE_MAX>>)>>

(***************************************************************************)
(* State of the scanner parse_gfa_paths_walks.  One iteration of its loop  *)
(* is three steps: read_until fills buf (ReadLine), the line is dispatched *)
(* to one of the four branches, which update the tables and advance        *)
(* num_path (Skip, FastPath, SlowNodeBp, SlowEdge), and buf.clear() ends   *)
(* the iteration (EndLine).                                                *)
(***************************************************************************)
VARIABLES
    count,               \* the count type of the run
    has_include,         \* graph_mask.include_coords.is_some()
    has_exclude,         \* graph_mask.exclude_coords.is_some()
    item_table,          \* ItemTable: items and id_prefsum
    subset_covered_bps,  \* Option<IntervalContainer>
    exclude_table,       \* Option<ActiveTable>
    num_path,            \* index of the next P/W line
    paths_len,           \* path index -> (node count, bp length)
    pc,                  \* "read", "line", "done" or "panicked"
    buf,                 \* the line read_until delivered
    route,               \* the branch that consumed buf
    ret,                 \* what the updater returned for buf
    log,                 \* the appends/flaggings the updater made for buf
    before,              \* the tables as they were when buf was read
    fully_covered,       \* history: the nodes some processed token covered completely
    touched,             \* history: the nodes with a token that meets an exclude interval
    workers,             \* the position of each thread of the pool inside the for_each closure
    pending,             \* the token positions par_split has not handed to a thread yet
    mutex_vec,           \* per bucket: the thread that holds its mutex, 0 when free
    bp_len               \* the AtomicU32 accumulator of the fast path

\* State of the rarefaction binary (src/src/main.rs): main and the loops of
\* cumulative_count_nodes / cumulative_count_edges.
VARIABLES
    count_type,          \* params.count_type, "-" before the arguments are parsed
    cpc,                 \* "args", "sample" (next line of samples), "paths" (inside l.iter()),
                         \* "end" or "panicked"
    n_samples,           \* the number of sample lines consumed
    n_paths,             \* the number of paths of the current sample consumed
    cur_hap,             \* cur_hap, 0 for None
    seq,                 \* the path or walk consumed last
    visited,             \* visited, as the set of (key, group index) pairs
    new,                 \* new
    res,                 \* res: the rows pushed so far
    groups,              \* history: the number of haplotype groups started
    occurred,            \* history: the (key, group number) pairs that occurred
    repeats,             \* history: the (key, group number) pairs that occurred twice or more
    present              \* history: the countables of the graph that occurred

cum ==
    <<count_type, cpc, n_samples, n_paths, cur_hap, seq, visited, new, res,
      groups, occurred, repeats, present>>

\* State of parse_gfa_paths_walks_multiple, next to the scans that
\* parse_gfa_paths_walks runs alone over the same lines, one for each count type.
VARIABLES
    count_types,         \* count_types, <<>> before the call
    mpc,                 \* "load", "scan" or "panicked"
    item_tables,         \* item_tables[i]
    exclude_tables,      \* exclude_tables[i]
    shared_covered_bps,  \* the one subset_covered_bps of the multiple scan
    multi_paths_len,     \* the one paths_len of the multiple scan
    multi_num_path,      \* num_path of the multiple scan
    alone                \* alone[i]: the tables of the scan for count_types[i] alone

multi ==
    <<count_types, mpc, item_tables, exclude_tables, shared_covered_bps,
      multi_paths_len, multi_num_path, alone>>

\* State of run (src/src/cli.rs) and of the parse_threshold_cli call behind it.
VARIABLES
    params,              \* the variant of Params, "-" before read_params
    rpc,                 \* "start", "index", "abacus", "hist", "output" or "returned"
    path_segments,       \* graph_aux.path_segments.len(), -1 before the graph is indexed
    abacus_aux,          \* TRUE once AbacusAuxilliary::from_params has loaded the masks
    abacus,              \* TRUE once Abacus::from_gfa has run
    hist,                \* hist.coverage.len(), -1 before the histogram exists
    out,                 \* the number of lines written to out
    result,              \* "-", "Ok", "Err" or "panic"
    threshold_str,       \* the argument of parse_threshold_cli
    thresholds           \* what parse_threshold_cli returned

cli ==
    <<params, rpc, path_segments, abacus_aux, abacus, hist, out, result,
      threshold_str, thresholds>>

\* State of two histgrowth runs on the same input (src/src/analyses/histgrowth.rs).
VARIABLES
    hists,               \* gb.get_hists(): count type -> coverage, <<>> before the input
    curves,              \* hist_aux.coverage.len(), the number of growth curves
    values_order,        \* values_order[r]: the order in which run r iterates get_hists().values()
    growths,             \* growths[r]: self.growths of run r
    table                \* table[r]: the columns run r has written, <<>> before write_table

hg ==
    <<hists, curves, values_order, growths, table>>

\* State of one call of preprocess_instructions (src/src/lib.rs).
VARIABLES
    instructions,        \* the argument, <<>> before the call
    ipc,                 \* "start", "map", "group", "returned" or "error"
    graphs,              \* the keys of graphs: the names of the declared Graph sections
    subsets,             \* subsets: name -> file of the declared Subset sections
    new_instructions,    \* the synthesized Graph sections
    counter,             \* counter
    consumed,            \* how many instructions the filter/map iterator has taken
    mapped,              \* what the map has produced so far
    preprocessed         \* the returned list, <<>> before the return

pre ==
    <<instructions, ipc, graphs, subsets, new_instructions, counter, consumed,
      mapped, preprocessed>>

\* State of get_tasks and execute_pipeline (src/src/lib.rs) and of the report
\* (src/src/html_report.rs).
VARIABLES
    tasks,               \* the Vec<Task> get_tasks returned, <<>> before
    shall_write_html,    \* the argument of execute_pipeline
    tpc,                 \* "start", "run", "write", "done" or "panic"
    index,               \* the tasks executed so far
    gb,                  \* Option<GraphBroker>: its graph files, masks, grouping, finished
    report,              \* report: the sections of the analyses executed so far
    trace,               \* history: the changes, finish() calls and analyses, in order
    js_objects           \* the JsVars of generate_report_content, <<>> before

pipeline ==
    <<tasks, shall_write_html, tpc, index, gb, report, trace, js_objects>>

\* the variables of the programs next to the scanner
beyond ==
    <<cum, multi, cli, hg, pre, pipeline>>

vars ==
    <<count, has_include, has_exclude, item_table, subset_covered_bps, exclude_table,
      num_path, paths_len, pc, buf, route, ret, log, before, fully_covered, touched,
      workers, pending, mutex_vec, bp_len, beyond>>

config ==
    <<count, has_include, has_exclude>>

history ==
    <<fully_covered, touched>>

par ==
    <<workers, pending, mutex_vec, bp_len>>

Idle ==
    [pc |-> "idle", sid |-> 0, idx |-> 0, tmp |-> 0]

NoLine ==
    [form |-> "-", tokens |-> <<>>, bare |-> FALSE, start |-> 0,
     include |-> <<>>, exclude |-> <<>>]

Tables ==
    [item_table |-> item_table, subset_covered_bps |-> subset_covered_bps,
     exclude_table |-> exclude_table, paths_len |-> paths_len, num_path |-> num_path]

\* main.rs lines 373-380: the binary has started, its arguments are not parsed yet
InitMain ==
    /\ count_type = "-"
    /\ cpc = "args"
    /\ n_samples = 0
    /\ n_paths = 0
    /\ cur_hap = 0
    /\ seq = <<>>
    /\ visited = {}
    /\ new = 0
    /\ res = <<>>
    /\ groups = 0
    /\ occurred = {}
    /\ repeats = {}
    /\ present = {}

\* no histgrowth run has its input yet
InitHistgrowth ==
    /\ hists = <<>>
    /\ curves = 0
    /\ values_order = <<>>
    /\ growths = <<>>
    /\ table = <<>>

\* preprocess_instructions has not been called yet
InitPreprocess ==
    /\ instructions = <<>>
    /\ ipc = "start"
    /\ graphs = {}
    /\ subsets = <<>>
    /\ new_instructions = {}
    /\ counter = 0
    /\ consumed = 0
    /\ mapped = <<>>
    /\ preprocessed = <<>>

\* get_tasks has not been called yet
InitPipeline ==
    /\ tasks = <<>>
    /\ shall_write_html = FALSE
    /\ tpc = "start"
    /\ index = 0
    /\ gb = [some |-> FALSE, files |-> {}, subset |-> "None", exclude |-> "",
             grouping |-> "None", finished |-> FALSE]
    /\ report = <<>>
    /\ trace = <<>>
    /\ js_objects = <<>>

\* run has not been called yet
InitRun ==
    /\ params = "-"
    /\ rpc = "start"
    /\ path_segments = -1
    /\ abacus_aux = FALSE
    /\ abacus = FALSE
    /\ hist = -1
    /\ out = 0
    /\ result = "-"
    /\ threshold_str = <<>>
    /\ thresholds = [ok |-> TRUE, list |-> <<>>, pos |-> 0]

\* parse_gfa_paths_walks_multiple has not been called yet
InitMulti ==
    /\ count_types = <<>>
    /\ mpc = "load"
    /\ item_tables = <<>>
    /\ exclude_tables = <<>>
    /\ shared_covered_bps = [some |-> FALSE, v |-> {}]
    /\ multi_paths_len = {}
    /\ multi_num_path = 0
    /\ alone = <<>>

\* GraphMask::load_optional_subsetting and ItemTable::new
Init ==
    /\ count \in CountTypes
    /\ has_include \in BOOLEAN
    /\ has_exclude \in BOOLEAN
    /\ item_table = ItemTableNew
    /\ subset_covered_bps = [some |-> (count = "Bp" /\ has_include), v |-> {}]
    /\ exclude_table = [some |-> has_exclude, v |-> ActiveTableNew(count = "Bp")]
    /\ num_path = 0
    /\ paths_len = {}
    /\ pc = "read"
    /\ buf = NoLine
    /\ route = "-"
    /\ ret = <<0, 0>>
    /\ log = <<>>
    /\ before = <<>>
    /\ fully_covered = {}
    /\ touched = {}
    /\ workers = [w \in Threads |-> Idle]
    /\ pending = {}
    /\ mutex_vec = [b \in Buckets |-> 0]
    /\ bp_len = 0
    /\ InitMain
    /\ InitMulti
    /\ InitRun
    /\ InitHistgrowth
    /\ InitPreprocess
    /\ InitPipeline

include_coords_of(line) ==
    IF ~has_include THEN complete ELSE line.include

exclude_coords_of(line) ==
    IF ~has_exclude THEN <<>> ELSE line.exclude

\* util.rs lines 261-263
SkipCond(line) ==
    /\ has_include
    /\ ~intersects(include_coords_of(line), SpanOf(line))
    /\ ~intersects(exclude_coords_of(line), SpanOf(line))

\* the fast-path test without its exclude conjunct
FastCond_IgnoringExclude(line) ==
    /\ count # "Edge"
    /\ (~has_include \/ is_contained(include_coords_of(line), SpanOf(line)))

\* util.rs lines 280-284
FastCond(line) ==
    /\ count # "Edge"
    /\ (~has_include \/ is_contained(include_coords_of(line), SpanOf(line)))
    /\ (~has_exclude \/ is_contained(exclude_coords_of(line), SpanOf(line)))

\* the start and the end of token k of the line in path coordinates
TokenStart(line, k) ==
    SpanOf(line)[1] + SumLen(SubSeq(line.tokens, 1, k - 1))

TokenEnd(line, k) ==
    TokenStart(line, k) + node_len(line.tokens[k][1])

\* the nodes of the line with a token that meets one of its exclude intervals
TouchedBy(line) ==
    {line.tokens[k][1] : k \in {x \in DOMAIN line.tokens :
        \E c \in Range(exclude_coords_of(line)) :
            c[1] < TokenEnd(line, x) /\ c[2] > TokenStart(line, x)}}

\* the history variables after a node/bp line: kept when their table is configured
Observe(line, complete_nodes) ==
    /\ fully_covered' = IF subset_covered_bps.some
                        THEN fully_covered \cup complete_nodes ELSE fully_covered
    /\ touched' = IF exclude_table.some THEN touched \cup TouchedBy(line) ELSE touched

\* util.rs line 217: the next P/W line of the file, with the mask of its path
ReadLine(line) ==
    /\ pc = "read"
    /\ num_path < MaxPaths
    /\ WellFormedLine(line)
    /\ (line.bare => num_path = MaxPaths - 1)
    /\ buf' = line
    /\ before' = Tables
    /\ pc' = "line"
    /\ UNCHANGED <<config, beyond, par, item_table, subset_covered_bps, exclude_table, num_path,
                   paths_len, route, ret, log, history>>

Panic(r) ==
    /\ pc' = "panicked"
    /\ route' = r
    /\ UNCHANGED <<config, beyond, par, item_table, subset_covered_bps, exclude_table, num_path,
                   paths_len, buf, ret, log, before, history>>

\* util.rs lines 258-277: the path touches neither mask
Skip ==
    /\ pc = "line"
    /\ SkipCond(buf)
    /\ item_table' = PrefixSum(item_table, num_path)
    /\ num_path' = num_path + 1
    /\ route' = "skip"
    /\ pc' = "done"
    /\ UNCHANGED <<config, beyond, par, subset_covered_bps, exclude_table, paths_len, buf, ret, log,
                   before, history>>

\* the schedules of the workers of one line: the orders of its token positions
Orders(path) ==
    {q \in SeqsUpTo(1..Len(path), Len(path)) :
        Len(q) = Len(path) /\ Range(q) = 1..Len(path)}

\* HashMap::insert
paths_len_insert(m, k, v) ==
    {e \in m : e[1] # k} \cup {<<k, v[1], v[2]>>}

\* util.rs lines 285-309: the token-parallel fast path
FastPath ==
    /\ pc = "line"
    /\ ~SkipCond(buf)
    /\ FastCond(buf)
    /\ IF buf.tokens = <<>> /\ ~buf.bare
       THEN Panic("fast")
       ELSE \E order \in Orders(buf.tokens) :
            \E r \in {IF buf.bare
                       THEN [item_table |-> item_table,
                             exclude_table |-> exclude_table,
                             panicked |-> FALSE, ret |-> <<0, 0>>]
                       ELSE parse_seq_update_tables(Tables, num_path, buf.tokens, order,
                                                    exclude_coords_of(buf) # <<>>)} :
                IF r.panicked
                THEN Panic("fast")
                ELSE /\ item_table' = r.item_table
                     /\ exclude_table' = r.exclude_table
                     /\ paths_len' = paths_len_insert(paths_len, num_path, r.ret)
                     /\ num_path' = num_path + 1
                     /\ route' = "fast"
                     /\ ret' = r.ret
                     /\ pc' = "done"
                     /\ Observe(buf, {buf.tokens[k][1] : k \in DOMAIN buf.tokens})
                     /\ UNCHANGED <<config, beyond, par, subset_covered_bps, buf, log, before>>

\* util.rs lines 310-331: the cursor-based slow path for nodes and bps
SlowNodeBp ==
    /\ pc = "line"
    /\ ~SkipCond(buf)
    /\ ~FastCond(buf)
    /\ count \in {"Node", "Bp"}
    /\ IF buf.tokens = <<>> /\ buf.form = "P"
       THEN Panic("slow")
       ELSE \E r \in {update_tables(Tables, num_path, buf.tokens, include_coords_of(buf),
                                      exclude_coords_of(buf), SpanOf(buf)[1])} :
                /\ item_table' = r.item_table
                /\ subset_covered_bps' = r.subset_covered_bps
                /\ exclude_table' = r.exclude_table
                /\ paths_len' = paths_len_insert(paths_len, num_path, r.ret)
                /\ num_path' = num_path + 1
                /\ route' = "slow"
                /\ ret' = r.ret
                /\ log' = r.log
                /\ pc' = "done"
                /\ Observe(buf, {r.log[k].sid : k \in {x \in DOMAIN r.log :
                                                           r.log[x].b - r.log[x].a = r.log[x].l}})
                /\ UNCHANGED <<config, beyond, par, buf, before>>

\* util.rs lines 332-341: the cursor-based path for edges
SlowEdge ==
    /\ pc = "line"
    /\ ~SkipCond(buf)
    /\ ~FastCond(buf)
    /\ count = "Edge"
    /\ IF buf.tokens = <<>> /\ buf.form = "P"
       THEN Panic("edge")
       ELSE \E r \in {update_tables_edgecount(Tables, num_path, buf.tokens,
                                                include_coords_of(buf),
                                                exclude_coords_of(buf), SpanOf(buf)[1])} :
                IF r.panicked
                THEN Panic("edge")
                ELSE /\ item_table' = r.item_table
                     /\ exclude_table' = r.exclude_table
                     /\ num_path' = num_path + 1
                     /\ route' = "edge"
                     /\ log' = r.log
                     /\ pc' = "done"
                     /\ UNCHANGED <<config, beyond, par, subset_covered_bps, paths_len, buf, ret,
                                    before, history>>

\* util.rs lines 345-347: buf.clear(); the results of the iteration go out of scope
EndLine ==
    /\ pc = "done"
    /\ buf' = NoLine
    /\ route' = "-"
    /\ ret' = <<0, 0>>
    /\ log' = <<>>
    /\ before' = <<>>
    /\ pc' = "read"
    /\ UNCHANGED <<config, beyond, par, item_table, subset_covered_bps, exclude_table, num_path,
                   paths_len, history>>

\* the file delivers some line over the given paths, starts and masks
ReadAny(tokenLists, starts, includeLists, excludeLists) ==
    /\ pc = "read"
    /\ \E t \in tokenLists, f \in {"P", "W"}, b \in BOOLEAN, st \in starts :
         \E inc \in (IF has_include THEN includeLists ELSE {<<>>}),
            exc \in (IF has_exclude THEN excludeLists ELSE {<<>>}) :
             ReadLine([form |-> f, tokens |-> t, bare |-> b, start |-> st,
                       include |-> inc, exclude |-> exc])

\* the multi-line scan reads short paths under single-interval masks
Next ==
    \/ ReadAny(SeqsUpTo(Tokens, 1), {0}, IntervalLists(1, 1), IntervalLists(1, 1))
    \/ Skip
    \/ FastPath
    \/ SlowNodeBp
    \/ SlowEdge
    \/ EndLine

\* the scan of a file of MaxPaths short P/W lines
Spec ==
    Init /\ [][Next]_vars

\* the first line of the file: any path within the bounds under any mask
ReadCallLine ==
    /\ num_path = 0
    /\ ReadAny(SeqsUpTo(Tokens, MaxTokens), 0..MaxStart,
               IntervalLists(MaxCoord, MaxIntervals), IntervalLists(MaxCoord, 1))

NextCall ==
    \/ ReadCallLine
    \/ Skip
    \/ FastPath
    \/ SlowNodeBp
    \/ EndLine

\* node and bp counting of the first P/W line of a file, for every line within the bounds
InitCall ==
    Init /\ count # "Edge"

SpecCall ==
    InitCall /\ [][NextCall]_vars

\* the first line of the file: any path of up to MaxTokens + 1 tokens
ReadEdgeLine ==
    /\ num_path = 0
    /\ ReadAny(SeqsUpTo(Tokens, MaxTokens + 1), 0..MaxStart,
               IntervalLists(MaxCoord, MaxIntervals), IntervalLists(MaxCoord - 1, 1))

NextEdge ==
    \/ ReadEdgeLine
    \/ Skip
    \/ SlowEdge
    \/ EndLine

\* edge counting of the first P/W line of a file, for every line within the bounds
InitEdge ==
    Init /\ count = "Edge"

SpecEdge ==
    InitEdge /\ [][NextEdge]_vars

(***************************************************************************)
(* The fast path thread by thread (parse_walk_seq_update_tables, util.rs   *)
(* lines 728-786; parse_path_seq_update_tables, lines 828-892).  par_split *)
(* hands each token to a thread of the pool; the closure looks the node    *)
(* up, locks the mutex of its bucket, pushes the id and increments the     *)
(* counter of the path while the guard lives, releases the mutex and adds  *)
(* the node length to the accumulator.  Vec::push and += are a load and a  *)
(* store each.                                                             *)
(***************************************************************************)
InSection(w) ==
    workers[w].pc \in {"push_load", "push_store", "inc_load", "inc_store", "unlock"}

OtherPar(w) ==
    /\ UNCHANGED <<config, beyond, num_path, subset_covered_bps, exclude_table, paths_len, pc, buf,
                   route, ret, log, before, history>>
    /\ \A v \in Threads \ {w} : workers'[v] = workers[v]

\* util.rs lines 728-746: the mutexes and the accumulator are created, par_split starts
StartPar ==
    /\ pc = "line"
    /\ ~SkipCond(buf)
    /\ FastCond(buf)
    /\ buf.tokens # <<>>
    /\ pending' = DOMAIN buf.tokens
    /\ workers' = [w \in Threads |-> Idle]
    /\ mutex_vec' = [b \in Buckets |-> 0]
    /\ bp_len' = 0
    /\ pc' = "par"
    /\ UNCHANGED <<config, beyond, item_table, subset_covered_bps, exclude_table, num_path,
                   paths_len, buf, route, ret, log, before, history>>

\* util.rs lines 749-752: a thread takes a token and computes its bucket
Take(w) ==
    /\ pc = "par"
    /\ workers[w].pc = "idle"
    /\ \E k \in pending :
          /\ pending' = pending \ {k}
          /\ workers' = [workers EXCEPT ![w] =
                            [pc |-> "lock", sid |-> buf.tokens[k][1],
                             idx |-> buf.tokens[k][1] % SIZE_T, tmp |-> 0]]
    /\ OtherPar(w)
    /\ UNCHANGED <<item_table, mutex_vec, bp_len>>

\* a lock that is granted while another thread holds the mutex
Lock_NoWait(w) ==
    /\ pc = "par"
    /\ workers[w].pc = "lock"
    /\ mutex_vec' = [mutex_vec EXCEPT ![workers[w].idx] = w]
    /\ workers' = [workers EXCEPT ![w].pc = "push_load"]
    /\ OtherPar(w)
    /\ UNCHANGED <<item_table, pending, bp_len>>

\* util.rs line 753: mutex_vec[idx].lock() blocks until the mutex is free
Lock(w) ==
    /\ pc = "par"
    /\ workers[w].pc = "lock"
    /\ mutex_vec[workers[w].idx] = 0
    /\ mutex_vec' = [mutex_vec EXCEPT ![workers[w].idx] = w]
    /\ workers' = [workers EXCEPT ![w].pc = "push_load"]
    /\ OtherPar(w)
    /\ UNCHANGED <<item_table, pending, bp_len>>

\* util.rs line 755: push reads the length of the bucket ...
PushLoad(w) ==
    /\ pc = "par"
    /\ workers[w].pc = "push_load"
    /\ workers' = [workers EXCEPT ![w].pc = "push_store",
                                  ![w].tmp = Len(item_table.items[workers[w].idx])]
    /\ OtherPar(w)
    /\ UNCHANGED <<item_table, pending, mutex_vec, bp_len>>

\* ... and writes the id behind it and the new length
PushStore(w) ==
    /\ pc = "par"
    /\ workers[w].pc = "push_store"
    /\ item_table' = [item_table EXCEPT !.items[workers[w].idx] =
                         Append(SubSeq(@, 1, workers[w].tmp), workers[w].sid)]
    /\ workers' = [workers EXCEPT ![w].pc = "inc_load"]
    /\ OtherPar(w)
    /\ UNCHANGED <<pending, mutex_vec, bp_len>>

\* util.rs line 756: += 1 reads the counter ...
IncLoad(w) ==
    /\ pc = "par"
    /\ workers[w].pc = "inc_load"
    /\ workers' = [workers EXCEPT ![w].pc = "inc_store",
                                  ![w].tmp = item_table.id_prefsum[workers[w].idx][num_path + 1]]
    /\ OtherPar(w)
    /\ UNCHANGED <<item_table, pending, mutex_vec, bp_len>>

\* ... and writes it back incremented
IncStore(w) ==
    /\ pc = "par"
    /\ workers[w].pc = "inc_store"
    /\ item_table' = [item_table EXCEPT !.id_prefsum[workers[w].idx][num_path + 1] =
                         workers[w].tmp + 1]
    /\ workers' = [workers EXCEPT ![w].pc = "unlock"]
    /\ OtherPar(w)
    /\ UNCHANGED <<pending, mutex_vec, bp_len>>

\* util.rs line 758: the guard is dropped at the end of the if-let
Unlock(w) ==
    /\ pc = "par"
    /\ workers[w].pc = "unlock"
    /\ mutex_vec' = [mutex_vec EXCEPT ![workers[w].idx] = 0]
    /\ workers' = [workers EXCEPT ![w].pc = "add"]
    /\ OtherPar(w)
    /\ UNCHANGED <<item_table, pending, bp_len>>

\* an accumulator that is stored to instead of added to
FetchAdd_Store(w) ==
    /\ pc = "par"
    /\ workers[w].pc = "add"
    /\ bp_len' = node_len(workers[w].sid)
    /\ workers' = [workers EXCEPT ![w] = Idle]
    /\ OtherPar(w)
    /\ UNCHANGED <<item_table, pending, mutex_vec>>

\* util.rs lines 759-762: bp_len.fetch_add(node_len, SeqCst); for a P line the
\* closure returns node_len and rayon sums the results (lines 868-870)
FetchAdd(w) ==
    /\ pc = "par"
    /\ workers[w].pc = "add"
    /\ bp_len' = bp_len + node_len(workers[w].sid)
    /\ workers' = [workers EXCEPT ![w] = Idle]
    /\ OtherPar(w)
    /\ UNCHANGED <<item_table, pending, mutex_vec>>

\* util.rs lines 764-786 and 309, 345: for_each has returned; the closing pass, the
\* flagging of the slice of the path, and the bookkeeping of the scanner
ClosePar ==
    /\ pc = "par"
    /\ pending = {}
    /\ \A w \in Threads : workers[w].pc = "idle"
    /\ LET num_nodes_path == SumColumn(item_table, num_path, 0)
           closed == PrefixSum(item_table, num_path)
           ex == exclude_coords_of(buf) # <<>> /\ exclude_table.some
       IN  IF ex /\ ~SliceInBounds(closed, num_path)
           THEN /\ pc' = "panicked"
                /\ route' = "par"
                /\ UNCHANGED <<config, beyond, par, item_table, subset_covered_bps, exclude_table,
                               num_path, paths_len, buf, ret, log, before, history>>
           ELSE /\ item_table' = closed
                /\ exclude_table' =
                       IF ex THEN [exclude_table EXCEPT !.v.items = @ \cup SliceIds(closed, num_path)]
                       ELSE exclude_table
                /\ paths_len' = paths_len_insert(paths_len, num_path, <<num_nodes_path, bp_len>>)
                /\ ret' = <<num_nodes_path, bp_len>>
                /\ num_path' = num_path + 1
                /\ route' = "par"
                /\ pc' = "done"
                /\ Observe(buf, {buf.tokens[k][1] : k \in DOMAIN buf.tokens})
                /\ UNCHANGED <<config, beyond, par, subset_covered_bps, buf, log, before>>

\* the first line of the file: a short path
ReadFirstLine ==
    /\ num_path = 0
    /\ ReadAny(SeqsUpTo(Tokens, 1), {0}, {<<>>}, IntervalLists(1, 1))

\* the second line of the file: a path of up to MaxTokens + 1 tokens; the fast path
\* does not read the orientations
ReadSecondLine ==
    /\ num_path = 1
    /\ ReadAny(SeqsUpTo(Nodes \X {"Forward"}, MaxTokens + 1), {0}, {<<>>},
               IntervalLists(1, 1))

\* the fast path of the first line, and of a line without tokens, in one step
FastPathWhole ==
    /\ (num_path = 0 \/ buf.tokens = <<>>)
    /\ FastPath

\* the fast path of the second line, thread by thread
StartParSecond ==
    /\ num_path = 1
    /\ StartPar

NextPar ==
    \/ ReadFirstLine
    \/ ReadSecondLine
    \/ FastPathWhole
    \/ SlowNodeBp
    \/ EndLine
    \/ StartParSecond
    \/ \E w \in Threads :
          \/ Take(w)
          \/ Lock(w)
          \/ PushLoad(w)
          \/ PushStore(w)
          \/ IncLoad(w)
          \/ IncStore(w)
          \/ Unlock(w)
          \/ FetchAdd(w)
    \/ ClosePar

\* node counting without a positive list: the first line in one step, the second
\* line's fast path thread by thread
InitPar ==
    Init /\ count = "Node" /\ ~has_include

SpecPar ==
    InitPar /\ [][NextPar]_vars

(***************************************************************************)
(* Properties of the scan.                                                 *)
(***************************************************************************)
\* the index of the line consumed last
LastPath ==
    num_path - 1

\* the number of ids the line consumed last appended to bucket b
AppendedTo(b) ==
    Len(item_table.items[b]) - Len(before.item_table.items[b])

\* C1: once a P/W line with path index p is consumed, whatever branch consumed it
\* and whether or not it has tokens, id_prefsum[b][p+1] - id_prefsum[b][p] is the
\* number of ids appended to items[b] while processing the line, for every bucket b.
C1_PrefsumCountsAppends ==
    pc = "done" =>
        \A b \in Buckets :
            item_table.id_prefsum[b][LastPath + 1] - item_table.id_prefsum[b][LastPath]
                = AppendedTo(b)

\* the span lies inside one interval of coords / meets some interval of coords
SpanInside(coords, span) ==
    \E c \in Range(coords) : c[1] <= span[1] /\ span[2] <= c[2]

SpanMeets(coords, span) ==
    \E c \in Range(coords) : c[1] < span[2] /\ span[1] < c[2]

C5_SkipOnlyCarriesPrefsum ==
    (/\ pc \in {"done", "panicked"}
     /\ has_include
     /\ ~SpanMeets(include_coords_of(buf), SpanOf(buf))
     /\ ~SpanMeets(exclude_coords_of(buf), SpanOf(buf))) =>
        /\ pc = "done"
        /\ item_table.items = before.item_table.items
        /\ exclude_table = before.exclude_table
        /\ subset_covered_bps = before.subset_covered_bps
        /\ paths_len = before.paths_len
        /\ num_path = before.num_path + 1
        /\ \A b \in Buckets :
              item_table.id_prefsum[b] =
                  [before.item_table.id_prefsum[b] EXCEPT
                      ![before.num_path + 1] = before.item_table.id_prefsum[b][before.num_path]]

\* C5 witness: a line was skipped after earlier lines had filled a bucket
C5_Witness ==
    /\ pc = "done"
    /\ route = "skip"
    /\ \E b \in Buckets : item_table.id_prefsum[b][num_path] > 0

Max(x, y) ==
    IF x > y THEN x ELSE y

Min(x, y) ==
    IF x < y THEN x ELSE y

\* C6: every append update_tables makes for a token (sid, o) of length L at path
\* offset p and an include interval (s, e) computes the sub-interval
\* [max(s,p)-p, min(e,p+L)-p) for a Forward token and its mirror for a Backward
\* token, and 0 <= a < b <= L.
C6_SubIntervalClipped ==
    (pc = "done" /\ route = "slow") =>
        \A k \in DOMAIN log :
            LET r == log[k]
                lo == Max(r.s, r.p) - r.p
                hi == Min(r.e, r.p + r.l) - r.p
            IN  /\ \E t \in DOMAIN buf.tokens :
                      /\ buf.tokens[t] = <<r.sid, r.o>>
                      /\ TokenStart(buf, t) = r.p
                      /\ node_len(r.sid) = r.l
                /\ <<r.s, r.e>> \in Range(include_coords_of(buf))
                /\ r.o = "Forward" => (r.a = lo /\ r.b = hi)
                /\ r.o = "Backward" => (r.a = r.l - hi /\ r.b = r.l - lo)
                /\ 0 <= r.a /\ r.a < r.b /\ r.b <= r.l

\* C6 witness: a Backward token was appended for an interval that covers an
\* asymmetric part of it
C6_Witness ==
    /\ pc = "done"
    /\ route = "slow"
    /\ \E k \in DOMAIN log :
          /\ log[k].o = "Backward"
          /\ log[k].a > 0
          /\ log[k].b = log[k].l
          /\ log[k].s = log[k].p

\* the positions of the span of the line that its include intervals cover
CoveredPositions(line) ==
    {x \in SpanOf(line)[1]..(SpanOf(line)[1] + SumLen(line.tokens) - 1) :
        \E c \in Range(include_coords_of(line)) : c[1] <= x /\ x < c[2]}

\* C7: update_tables returns as included bp length the length of the intersection
\* of the path span [offset, offset + sum of node lengths) with the union of the
\* include intervals, also when it stops before the last token.
C7_IncludedBpExact ==
    (pc = "done" /\ route = "slow") =>
        ret[2] = Cardinality(CoveredPositions(buf))

\* C7 witness: a two-token path whose first node is covered in part and whose
\* second token is never visited
C7_Witness ==
    /\ pc = "done"
    /\ route = "slow"
    /\ Len(buf.tokens) = 2
    /\ Len(log) = 1
    /\ log[1].b - log[1].a < log[1].l
    /\ ret = <<1, log[1].b - log[1].a>>
    /\ item_table.id_prefsum[log[1].sid % SIZE_T][1] = 1

\* the offset of the k-th consecutive token pair of the line: the end of token k
PairOffset(line, k) ==
    SpanOf(line)[1] + SumLen(SubSeq(line.tokens, 1, k))

\* the consecutive token pairs of the line with the id of their canonical edge and
\* whether some include interval of the line meets [p_k, p_k + len(t_k+1))
PairsOf(line) ==
    [k \in 1..(Len(line.tokens) - 1) |->
        LET t1 == line.tokens[k]
            t2 == line.tokens[k + 1]
            p == PairOffset(line, k)
        IN  [eid |-> edge2id_get(canonical(t1[1], t1[2], t2[1], t2[2])),
             hit |-> SpanMeets(include_coords_of(line), <<p, p + node_len(t2[1])>>)]]

\* the edge ids the line has to append to bucket b, in path order
ExpectedEdges(line, b) ==
    LET InBucket(r) == r.hit /\ r.eid % SIZE_T = b
        sel == SelectSeq(PairsOf(line), InBucket)
    IN  [x \in DOMAIN sel |-> sel[x].eid]

\* what the line consumed last appended to bucket b
AppendedSeq(b) ==
    SubSeq(item_table.items[b], Len(before.item_table.items[b]) + 1, Len(item_table.items[b]))

RECURSIVE TotalAppended(_)
TotalAppended(b) ==
    IF b >= SIZE_T THEN 0 ELSE AppendedTo(b) + TotalAppended(b + 1)

\* C10: update_tables_edgecount appends the EdgeId of the canonical edge of the
\* k-th consecutive token pair exactly once if some include interval meets
\* [p_k, p_k + len(t_k+1)) and not at all otherwise; without a mask a path of
\* n >= 1 tokens appends n - 1 edge ids.
C10_EdgeAppendedIffIncluded ==
    (pc = "done" /\ route = "edge") =>
        /\ \A b \in Buckets : AppendedSeq(b) = ExpectedEdges(buf, b)
        /\ (~has_include /\ ~has_exclude /\ Len(buf.tokens) >= 1)
              => TotalAppended(0) = Len(buf.tokens) - 1

\* C10 witness: of the two edges of a three-token path only the second was appended
C10_Witness ==
    /\ pc = "done"
    /\ route = "edge"
    /\ Len(buf.tokens) = 3
    /\ has_include
    /\ Len(log) = 2
    /\ ~log[1].appended
    /\ log[2].appended
    /\ TotalAppended(0) = 1

\* C8: after the scan the IntervalContainer has no entry for a node that some
\* processed token covered completely, in whatever order and on whatever route the
\* complete and the partial occurrences of the node were scanned.
C8_NoEntryForFullyCovered ==
    (pc = "read" /\ subset_covered_bps.some) =>
        \A sid \in fully_covered : ~IntervalContains(subset_covered_bps.v, sid)

\* C9: when an ActiveTable is configured, after the scan a node is flagged if and
\* only if some processed path has a token of that node that meets one of the
\* exclude intervals of the path.
C9_FlaggedIffTouched ==
    (pc = "read" /\ count # "Edge" /\ exclude_table.some) =>
        exclude_table.v.items = touched

\* the number of tokens of the line whose node falls into bucket b
TokensIn(line, b) ==
    Cardinality({k \in DOMAIN line.tokens : line.tokens[k][1] % SIZE_T = b})

RECURSIVE TotalCounted(_)
TotalCounted(b) ==
    IF b >= SIZE_T THEN 0
    ELSE (item_table.id_prefsum[b][LastPath + 1] - item_table.id_prefsum[b][LastPath])
             + TotalCounted(b + 1)

\* C2: while the tokens of one path are processed in parallel, a thread inside the
\* append-and-increment section of a bucket holds the mutex of that bucket, which is
\* the bucket id mod SIZE_T of its token, and no other mutex; no two threads are
\* inside the section of the same bucket; and after the phase as many ids were
\* appended and counted as the path has tokens.
C2_BucketMutexExcludes ==
    /\ \A w \in Threads :
          (pc = "par" /\ InSection(w)) =>
              /\ workers[w].idx = workers[w].sid % SIZE_T
              /\ mutex_vec[workers[w].idx] = w
              /\ \A b \in Buckets \ {workers[w].idx} : mutex_vec[b] # w
              /\ \A v \in Threads \ {w} : InSection(v) => workers[v].idx # workers[w].idx
    /\ (pc = "done" /\ route = "par") =>
          /\ TotalAppended(0) = Len(buf.tokens)
          /\ TotalCounted(0) = Len(buf.tokens)

\* C2 witness: a thread waits for the mutex of a bucket while another thread is
\* between the load and the store of its push to that bucket
C2_Witness ==
    /\ pc = "par"
    /\ \E w \in Threads, v \in Threads :
          /\ workers[w].pc = "push_store"
          /\ workers[v].pc = "lock"
          /\ workers[v].idx = workers[w].idx
          /\ workers[v].sid # workers[w].sid

\* the ids of the slice of the line consumed last in bucket b
SliceSeq(b) ==
    SubSeq(item_table.items[b], item_table.id_prefsum[b][LastPath] + 1,
           item_table.id_prefsum[b][LastPath + 1])

\* the ids of the tokens of the line in bucket b, in path order
TokenSeq(line, b) ==
    LET InBucket(t) == t[1] % SIZE_T = b
        sel == SelectSeq(line.tokens, InBucket)
    IN  [x \in DOMAIN sel |-> sel[x][1]]

\* C3: whatever the interleaving of the threads that processed the path, the final
\* id_prefsum entries, the multiset of ids of the slice of the path in every bucket
\* and the returned (node count, bp length) are the ones the path alone determines.
C3_ScheduleIndependent ==
    (pc = "done" /\ route = "par") =>
        /\ \A b \in Buckets :
              /\ item_table.id_prefsum[b] =
                     [before.item_table.id_prefsum[b] EXCEPT
                         ![LastPath + 1] =
                             before.item_table.id_prefsum[b][LastPath] + TokensIn(buf, b)]
              /\ Len(SliceSeq(b)) = TokensIn(buf, b)
              /\ \A sid \in Nodes : CountIn(SliceSeq(b), sid) = CountIn(TokenSeq(buf, b), sid)
              /\ SubSeq(item_table.items[b], 1, Len(before.item_table.items[b]))
                     = before.item_table.items[b]
        /\ ret = <<Len(buf.tokens), SumLen(buf.tokens)>>

\* C3 witness: the ids of a slice stand in another order than their tokens
C3_Witness ==
    /\ pc = "done"
    /\ route = "par"
    /\ \E b \in Buckets :
          /\ Len(SliceSeq(b)) >= 2
          /\ SliceSeq(b) # TokenSeq(buf, b)
          /\ item_table.id_prefsum[b][LastPath] > 0

\* the canonical edge of the k-th consecutive token pair of the line
PairEdge(line, k) ==
    canonical(line.tokens[k][1], line.tokens[k][2],
              line.tokens[k + 1][1], line.tokens[k + 1][2])

\* C11: a path that update_tables_edgecount has consumed without a fatal error has
\* no consecutive token pair whose canonical edge lacks an EdgeId, wherever the
\* pair is and whatever the include and exclude intervals are.
C11_UnknownEdgeFatal ==
    (pc = "done" /\ route = "edge") =>
        \A k \in 1..(Len(buf.tokens) - 1) : edge2id_contains(PairEdge(buf, k))


\* ---------------------------------------------------------------------------
\* The rarefaction binary: cumulative_count_nodes and cumulative_count_edges
\* ---------------------------------------------------------------------------

\* a Handle is <<segment id, is_reverse>> (Handle::pack)
Handles ==
    (1..MaxHandleId) \X BOOLEAN

\* the paths and walks parse_path / parse_walk can return, the empty one included
HandleSeqs ==
    SeqsUpTo(Handles, MaxSeqLen)

\* haplotype ids, in their sort order
Haps ==
    1..MaxHaps

\* Handle::forward
forward(h) ==
    <<h[1], FALSE>>

\* Handle::flip
flip_handle(h) ==
    <<h[1], ~h[2]>>

\* the key cumulative_count_edges stores the traversal v -> u under
EdgeKey(v, u) ==
    IF (v[2] /\ u[2]) \/ (v[2] # u[2] /\ v[1] > u[1])
    THEN <<forward(u), forward(v)>>
    ELSE <<v, u>>

\* the graph edge of the traversal v -> u: the smaller of the traversal and its
\* reverse complement
TrueEdge(v, u) ==
    LET a == <<v, u>>
        b == <<flip_handle(u), flip_handle(v)>>
        rank(e) == << e[1][1], IF e[1][2] THEN 1 ELSE 0, e[2][1], IF e[2][2] THEN 1 ELSE 0 >>
        less(x, y) == \E i \in 1..4 : x[i] < y[i] /\ \A j \in 1..(i - 1) : x[j] = y[j]
    IN IF less(rank(b), rank(a)) THEN b ELSE a

\* the keys one path or walk contributes, in order
KeysOf(ct, s) ==
    IF ct = "nodes"
    THEN [j \in 1..Len(s) |-> s[j][1]]
    ELSE [j \in 1..(Len(s) - 1) |-> EdgeKey(s[j], s[j + 1])]

\* the countables of the graph one path or walk walks over
CountablesOf(ct, s) ==
    IF ct = "nodes"
    THEN {s[j][1] : j \in 1..Len(s)}
    ELSE {TrueEdge(s[j], s[j + 1]) : j \in 1..(Len(s) - 1)}

\* visited.keys()
VisitedKeys(vis) ==
    {p[1] : p \in vis}

\* visited[k].len()
Coverage(vis, k) ==
    Cardinality({p \in vis : p[1] = k})

\* the insertion that tells the paths of one haplotype apart
InsertGroup_PerPath(vis, k, idx, np) ==
    vis \cup {<<k, idx * (MaxSamplePaths + 1) + np>>}

\* x.insert(res.len())
InsertGroup(vis, k, idx, np) ==
    vis \cup {<<k, idx>>}

\* the threshold of the major column that rounds up
MajorThreshold_Ceil(m) ==
    (m + 1) \div 2

\* (res.len() + 1) / 2 with m = res.len() + 1
MajorThreshold(m) ==
    m \div 2

\* the row pushed when a haplotype group closes
Row(vis, n, m) ==
    [new |-> n,
     major |-> Cardinality({k \in VisitedKeys(vis) : Coverage(vis, k) >= MajorThreshold(m)}),
     shared |-> Cardinality({k \in VisitedKeys(vis) : Coverage(vis, k) = m})]

RECURSIVE InsertAll(_, _, _, _, _)
\* the loop over the keys of one path: <<visited, new>> after it
InsertAll(vis, n, ks, idx, np) ==
    IF ks = <<>> THEN <<vis, n>>
    ELSE InsertAll(InsertGroup(vis, Head(ks), idx, np),
                   IF Head(ks) \in VisitedKeys(vis) THEN n ELSE n + 1,
                   Tail(ks), idx, np)

\* the variables of the scanner, which the rarefaction binary does not have
scanner ==
    <<count, has_include, has_exclude, item_table, subset_covered_bps, exclude_table,
      num_path, paths_len, pc, buf, route, ret, log, before, fully_covered, touched,
      workers, pending, mutex_vec, bp_len>>

\* Command::parse: the count type is one of the possible values
ParseArgs ==
    /\ cpc = "args"
    /\ \E ct \in {"nodes", "edges"} : count_type' = ct
    /\ cpc' = "sample"
    /\ UNCHANGED <<n_samples, n_paths, cur_hap, seq, visited, new, res,
                   groups, occurred, repeats, present>>
    /\ UNCHANGED <<scanner, multi, cli, hg, pre, pipeline>>

\* a sample of the samples file that the GFA file does not have
SampleMissing ==
    /\ cpc = "sample"
    /\ n_samples < MaxSamples
    /\ n_samples' = n_samples + 1
    /\ UNCHANGED <<count_type, cpc, n_paths, cur_hap, seq, visited, new, res,
                   groups, occurred, repeats, present>>
    /\ UNCHANGED <<scanner, multi, cli, hg, pre, pipeline>>

\* a sample the GFA file has: cur_hap = None, the loop over its paths begins
SampleFound ==
    /\ cpc = "sample"
    /\ n_samples < MaxSamples
    /\ cpc' = "paths"
    /\ cur_hap' = 0
    /\ n_paths' = 0
    /\ UNCHANGED <<count_type, n_samples, seq, visited, new, res,
                   groups, occurred, repeats, present>>
    /\ UNCHANGED <<scanner, multi, cli, hg, pre, pipeline>>

\* one iteration of the loop over the sorted paths of the sample
CountPath(hap, s) ==
    /\ cpc = "paths"
    /\ n_paths < MaxSamplePaths
    /\ hap >= cur_hap
    /\ LET closes == cur_hap # hap /\ cur_hap # 0
           res1 == IF closes THEN Append(res, Row(visited, new, Len(res) + 1)) ELSE res
           grp == IF cur_hap # hap THEN groups + 1 ELSE groups
           ks == KeysOf(count_type, s)
           kset == Range(ks)
       IN /\ res' = res1
          /\ cur_hap' = hap
          /\ seq' = s
          /\ n_paths' = n_paths + 1
          /\ groups' = grp
          /\ IF count_type = "edges" /\ Len(s) = 0
             THEN /\ cpc' = "panicked"
                  /\ UNCHANGED <<visited, new, occurred, repeats, present>>
             ELSE /\ cpc' = cpc
                  /\ \E r \in {InsertAll(visited, new, ks, Len(res1), n_paths)} :
                         /\ visited' = r[1]
                         /\ new' = r[2]
                  /\ occurred' = occurred \cup {<<k, grp>> : k \in kset}
                  /\ repeats' = repeats \cup
                         {<<k, grp>> : k \in {x \in kset : \/ <<x, grp>> \in occurred
                                                           \/ CountIn(ks, x) >= 2}}
                  /\ present' = present \cup CountablesOf(count_type, s)
    /\ UNCHANGED <<count_type, n_samples>>
    /\ UNCHANGED <<scanner, multi, cli, hg, pre, pipeline>>

\* the paths of the sample are exhausted: the row of its last haplotype
CloseSample ==
    /\ cpc = "paths"
    /\ n_paths >= 1
    /\ res' = Append(res, Row(visited, new, Len(res) + 1))
    /\ n_samples' = n_samples + 1
    /\ cpc' = "sample"
    /\ UNCHANGED <<count_type, n_paths, cur_hap, seq, visited, new,
                   groups, occurred, repeats, present>>
    /\ UNCHANGED <<scanner, multi, cli, hg, pre, pipeline>>

\* any path or walk of the sample
CountAnyPath ==
    \E hap \in Haps, s \in HandleSeqs : CountPath(hap, s)

NextCum ==
    \/ ParseArgs
    \/ SampleMissing
    \/ SampleFound
    \/ CountAnyPath
    \/ CloseSample

\* the start of a program that configures no scan and no mask
InitNoScan ==
    /\ Init
    /\ count = "Node"
    /\ ~has_include
    /\ ~has_exclude

SpecCum ==
    InitNoScan /\ [][NextCum]_vars

\* ---------------------------------------------------------------------------
\* parse_gfa_paths_walks_multiple, next to parse_gfa_paths_walks run alone
\* ---------------------------------------------------------------------------

\* the lists of count types a call can pass: distinct, at most MaxCountTypes
CountTypeLists ==
    {q \in SeqsUpTo(CountTypes, MaxCountTypes) :
        Len(q) >= 1 /\ \A a, b \in DOMAIN q : q[a] = q[b] => a = b}

\* util.rs lines 113-117 and 280-284 for the count type ct
FastCondOf(ct, line) ==
    /\ ct # "Edge"
    /\ (~has_include \/ is_contained(include_coords_of(line), SpanOf(line)))
    /\ (~has_exclude \/ is_contained(exclude_coords_of(line), SpanOf(line)))

\* the three tables of a scan
TablesOf(r) ==
    [item_table |-> r.item_table, subset_covered_bps |-> r.subset_covered_bps,
     exclude_table |-> r.exclude_table]

\* what one count type's share of a line leaves: the tables r of the updater, whether
\* it panicked, its return value, and whether paths_len.insert follows it
Outcome(r, inserts) ==
    [item_table |-> r.item_table, subset_covered_bps |-> r.subset_covered_bps,
     exclude_table |-> r.exclude_table,
     panicked |-> IF "panicked" \in DOMAIN r THEN r.panicked ELSE FALSE,
     ret |-> IF "ret" \in DOMAIN r THEN r.ret ELSE <<0, 0>>,
     inserts |-> inserts]

\* util.rs lines 113-177 and 280-344: one count type's share of a line that is not
\* skipped; tb holds the item table, the exclude table and the interval container
CountLine(ct, tb, np, line, order) ==
    IF FastCondOf(ct, line)
    THEN IF line.bare
         THEN Outcome(TablesOf(tb), TRUE)
         ELSE IF line.tokens = <<>>
         THEN Outcome(TablesOf(tb) @@ [panicked |-> TRUE], FALSE)
         ELSE Outcome(parse_seq_update_tables(tb, np, line.tokens, order,
                                              exclude_coords_of(line) # <<>>), TRUE)
    ELSE IF line.tokens = <<>> /\ line.form = "P"
    THEN Outcome(TablesOf(tb) @@ [panicked |-> TRUE], FALSE)
    ELSE IF ct = "Edge"
    THEN Outcome(update_tables_edgecount(tb, np, line.tokens, include_coords_of(line),
                                         exclude_coords_of(line), SpanOf(line)[1]), FALSE)
    ELSE Outcome(update_tables(tb, np, line.tokens, include_coords_of(line),
                               exclude_coords_of(line), SpanOf(line)[1]), TRUE)

\* util.rs lines 258-345: the loop body of parse_gfa_paths_walks for count type ct
ScanLineAlone(ct, tb, np, line, order) ==
    IF SkipCond(line)
    THEN Outcome([TablesOf(tb) EXCEPT !.item_table = PrefixSum(@, np)], FALSE)
    ELSE CountLine(ct, tb, np, line, order)

\* the state s of the multiple scan after the share r of count type i, which wrote
\* to the exclude table ex
Merge(s, i, ex, np, r) ==
    [item_tables |-> [s.item_tables EXCEPT ![i] = r.item_table],
     exclude_tables |-> [s.exclude_tables EXCEPT ![ex] = r.exclude_table],
     subset_covered_bps |-> r.subset_covered_bps,
     paths_len |-> IF r.inserts THEN paths_len_insert(s.paths_len, np, r.ret)
                   ELSE s.paths_len,
     panicked |-> r.panicked]

RECURSIVE FanOut_OneExcludeTable(_, _, _, _, _, _)
\* a fan-out in which every count type flags in the exclude table of the first
FanOut_OneExcludeTable(s, cts, i, np, line, order) ==
    IF i > Len(cts) \/ s.panicked THEN s
    ELSE FanOut_OneExcludeTable(
             Merge(s, i, 1, np,
                   CountLine(cts[i],
                             [item_table |-> s.item_tables[i],
                              subset_covered_bps |-> s.subset_covered_bps,
                              exclude_table |-> s.exclude_tables[1]],
                             np, line, order)),
             cts, i + 1, np, line, order)

RECURSIVE FanOut(_, _, _, _, _, _)
\* util.rs lines 111-178: (0..count_types.len()).for_each over one line, from i on
FanOut(s, cts, i, np, line, order) ==
    IF i > Len(cts) \/ s.panicked THEN s
    ELSE FanOut(Merge(s, i, i, np,
                      CountLine(cts[i],
                                [item_table |-> s.item_tables[i],
                                 subset_covered_bps |-> s.subset_covered_bps,
                                 exclude_table |-> s.exclude_tables[i]],
                                np, line, order)),
                cts, i + 1, np, line, order)

\* util.rs lines 35-42 and 205-213: the tables before the first line, of the
\* multiple scan and of each scan alone
LoadMultiple ==
    /\ mpc = "load"
    /\ \E cts \in CountTypeLists :
         /\ count_types' = cts
         /\ item_tables' = [i \in DOMAIN cts |-> ItemTableNew]
         /\ exclude_tables' = [i \in DOMAIN cts |->
                                  [some |-> has_exclude, v |-> ActiveTableNew(cts[i] = "Bp")]]
         /\ shared_covered_bps' = [some |-> ("Bp" \in Range(cts) /\ has_include), v |-> {}]
         /\ alone' = [i \in DOMAIN cts |->
                         [item_table |-> ItemTableNew,
                          subset_covered_bps |-> [some |-> (cts[i] = "Bp" /\ has_include),
                                                  v |-> {}],
                          exclude_table |-> [some |-> has_exclude,
                                             v |-> ActiveTableNew(cts[i] = "Bp")]]]
    /\ mpc' = "scan"
    /\ UNCHANGED <<multi_paths_len, multi_num_path>>
    /\ UNCHANGED <<scanner, cum, cli, hg, pre, pipeline>>

\* util.rs lines 44-181: one P/W line through the multiple scan, and through lines
\* 217-347 of every scan alone
ScanMultiple(line, order) ==
    /\ mpc = "scan"
    /\ multi_num_path < MaxMultiPaths
    /\ WellFormedLine(line)
    /\ (line.bare => multi_num_path = MaxMultiPaths - 1)
    /\ \E m \in {IF SkipCond(line)
                 THEN [item_tables |-> [i \in DOMAIN count_types |->
                                           PrefixSum(item_tables[i], multi_num_path)],
                       exclude_tables |-> exclude_tables,
                       subset_covered_bps |-> shared_covered_bps,
                       paths_len |-> multi_paths_len,
                       panicked |-> FALSE]
                 ELSE FanOut([item_tables |-> item_tables,
                              exclude_tables |-> exclude_tables,
                              subset_covered_bps |-> shared_covered_bps,
                              paths_len |-> multi_paths_len,
                              panicked |-> FALSE],
                             count_types, 1, multi_num_path, line, order)} :
         \E a \in {[i \in DOMAIN count_types |->
                       ScanLineAlone(count_types[i], alone[i], multi_num_path, line, order)]} :
             IF m.panicked \/ \E i \in DOMAIN a : a[i].panicked
             THEN /\ mpc' = "panicked"
                  /\ UNCHANGED <<count_types, item_tables, exclude_tables, shared_covered_bps,
                                 multi_paths_len, multi_num_path, alone>>
             ELSE /\ item_tables' = m.item_tables
                  /\ exclude_tables' = m.exclude_tables
                  /\ shared_covered_bps' = m.subset_covered_bps
                  /\ multi_paths_len' = m.paths_len
                  /\ multi_num_path' = multi_num_path + 1
                  /\ alone' = [i \in DOMAIN a |-> TablesOf(a[i])]
                  /\ UNCHANGED <<count_types, mpc>>
    /\ UNCHANGED <<scanner, cum, cli, hg, pre, pipeline>>

\* the schedule in which the workers push the tokens in the order of the line
InOrder(path) ==
    [k \in 1..Len(path) |-> k]

\* the first line: any path within the bounds under any single-interval mask
ScanFirstOfMultiple ==
    /\ mpc = "scan"
    /\ multi_num_path = 0
    /\ \E t \in SeqsUpTo(Tokens, MaxTokens), f \in {"P", "W"} :
         \E inc \in (IF has_include THEN IntervalLists(MaxCoord, 1) ELSE {<<>>}),
            exc \in (IF has_exclude THEN IntervalLists(1, 1) ELSE {<<>>}) :
             ScanMultiple([form |-> f, tokens |-> t, bare |-> FALSE, start |-> 0,
                           include |-> inc, exclude |-> exc], InOrder(t))

\* a later line: a short walk under a short mask
ScanNextOfMultiple ==
    /\ mpc = "scan"
    /\ multi_num_path > 0
    /\ \E t \in SeqsUpTo(Tokens, 1), b \in BOOLEAN :
         \E inc \in (IF has_include THEN IntervalLists(1, 1) ELSE {<<>>}),
            exc \in (IF has_exclude THEN IntervalLists(1, 1) ELSE {<<>>}) :
             ScanMultiple([form |-> "W", tokens |-> t, bare |-> b, start |-> 0,
                           include |-> inc, exclude |-> exc], InOrder(t))

NextMulti ==
    \/ LoadMultiple
    \/ ScanFirstOfMultiple
    \/ ScanNextOfMultiple

\* the mask of the run is any; the single scanner is not running
InitMultiple ==
    /\ Init
    /\ count = "Node"

SpecMulti ==
    InitMultiple /\ [][NextMulti]_vars

\* ---------------------------------------------------------------------------
\* cli.rs: parse_threshold_cli and run
\* ---------------------------------------------------------------------------

\* the characters of a threshold list: digits, the point, the sign, a blank, a
\* letter and the separator
Chars ==
    {"1", "2", ".", "-", " ", "x", ","}

Digits ==
    {"1", "2"}

\* str::trim
RECURSIVE Trim(_)
Trim(e) ==
    IF e # <<>> /\ Head(e) = " " THEN Trim(Tail(e))
    ELSE IF e # <<>> /\ e[Len(e)] = " " THEN Trim(SubSeq(e, 1, Len(e) - 1))
    ELSE e

\* str::split(','): the entries of the list, at least one
RECURSIVE Split(_)
Split(str) ==
    IF \A k \in DOMAIN str : str[k] # "," THEN <<str>>
    ELSE LET k == CHOOSE x \in DOMAIN str :
                      str[x] = "," /\ \A y \in 1..(x - 1) : str[y] # ","
         IN <<SubSeq(str, 1, k - 1)>> \o Split(SubSeq(str, k + 1, Len(str)))

\* the decimal value of a digit string
RECURSIVE DecimalValue(_)
DecimalValue(e) ==
    IF e = <<>> THEN 0
    ELSE 10 * DecimalValue(SubSeq(e, 1, Len(e) - 1)) + (IF e[Len(e)] = "1" THEN 1 ELSE 2)

\* usize::from_str: one or more digits
usize_from_str(e) ==
    IF e # <<>> /\ \A k \in DOMAIN e : e[k] \in Digits
    THEN [ok |-> TRUE, v |-> DecimalValue(e)]
    ELSE [ok |-> FALSE, v |-> 0]

\* f64::from_str: an optional sign, then digits with at most one point and at
\* least one digit; the value is <<negative, numerator, fraction digits>>
f64_from_str(e) ==
    LET neg == e # <<>> /\ Head(e) = "-"
        m == IF neg THEN Tail(e) ELSE e
        points == {k \in DOMAIN m : m[k] = "."}
        digits == SelectSeq(m, LAMBDA ch : ch \in Digits)
    IN IF /\ \A k \in DOMAIN m : m[k] \in Digits \cup {"."}
          /\ Cardinality(points) <= 1
          /\ digits # <<>>
       THEN [ok |-> TRUE,
             v |-> <<neg, DecimalValue(digits),
                     IF points = {} THEN 0 ELSE Len(m) - (CHOOSE k \in points : TRUE)>>]
       ELSE [ok |-> FALSE, v |-> <<FALSE, 0, 0>>]

\* an entry that is tried as a float before it is tried as an integer
Threshold_FloatFirst(el) ==
    IF f64_from_str(Trim(el)).ok
    THEN [kind |-> "Relative", v |-> f64_from_str(Trim(el)).v]
    ELSE IF usize_from_str(Trim(el)).ok
    THEN [kind |-> "Absolute", v |-> usize_from_str(Trim(el)).v]
    ELSE [kind |-> "neither", v |-> 0]

\* cli.rs lines 203-207: the Threshold of one entry, or neither
Threshold(el) ==
    IF usize_from_str(Trim(el)).ok
    THEN [kind |-> "Absolute", v |-> usize_from_str(Trim(el)).v]
    ELSE IF f64_from_str(Trim(el)).ok
    THEN [kind |-> "Relative", v |-> f64_from_str(Trim(el)).v]
    ELSE [kind |-> "neither", v |-> 0]

\* cli.rs lines 202-218: the loop over the entries from entry i on
RECURSIVE ThresholdLoop(_, _, _)
ThresholdLoop(els, i, acc) ==
    IF i > Len(els) THEN [ok |-> TRUE, list |-> acc, pos |-> 0]
    ELSE IF Threshold(els[i]).kind = "neither"
    THEN [ok |-> FALSE, list |-> <<>>, pos |-> i]
    ELSE ThresholdLoop(els, i + 1, Append(acc, Threshold(els[i])))

parse_threshold_cli(str) ==
    ThresholdLoop(Split(str), 1, <<>>)

\* read_params and cli.rs lines 228-238: the subcommand of the run
ReadParams ==
    /\ rpc = "start"
    /\ \E k \in {"Histgrowth", "Hist", "Growth", "OrderedHistgrowth"} :
         /\ params' = k
         /\ rpc' = IF k \in {"Histgrowth", "Hist"} THEN "index" ELSE "hist"
    /\ UNCHANGED <<path_segments, abacus_aux, abacus, hist, out, result,
                   threshold_str, thresholds>>
    /\ UNCHANGED <<scanner, cum, multi, hg, pre, pipeline>>

\* a run that loads the masks of a graph without P/W lines as of any other
IndexGraph_NoEarlyReturn ==
    /\ rpc = "index"
    /\ \E n \in 0..MaxRunSize, opened \in BOOLEAN, loaded \in BOOLEAN :
         /\ path_segments' = IF opened THEN n ELSE path_segments
         /\ IF ~opened \/ ~loaded
            THEN /\ result' = "Err"
                 /\ rpc' = "returned"
                 /\ UNCHANGED abacus_aux
            ELSE /\ abacus_aux' = TRUE
                 /\ rpc' = "abacus"
                 /\ UNCHANGED result
    /\ UNCHANGED <<params, abacus, hist, out, threshold_str, thresholds>>
    /\ UNCHANGED <<scanner, cum, multi, hg, pre, pipeline>>

\* cli.rs lines 244-273: the graph is opened and indexed (or not), has n P/W lines,
\* and the group, subset and exclude files load (or not)
IndexGraph ==
    /\ rpc = "index"
    /\ \E n \in 0..MaxRunSize, opened \in BOOLEAN, loaded \in BOOLEAN :
         /\ path_segments' = IF opened THEN n ELSE path_segments
         /\ IF ~opened
            THEN /\ result' = "Err"
                 /\ rpc' = "returned"
                 /\ UNCHANGED abacus_aux
            ELSE IF n = 0
            THEN /\ result' = "Ok"
                 /\ rpc' = "returned"
                 /\ UNCHANGED abacus_aux
            ELSE IF ~loaded
            THEN /\ result' = "Err"
                 /\ rpc' = "returned"
                 /\ UNCHANGED abacus_aux
            ELSE /\ abacus_aux' = TRUE
                 /\ rpc' = "abacus"
                 /\ UNCHANGED result
    /\ UNCHANGED <<params, abacus, hist, out, threshold_str, thresholds>>
    /\ UNCHANGED <<scanner, cum, multi, hg, pre, pipeline>>

\* cli.rs lines 280-294: the second pass over the graph file
BuildAbacus ==
    /\ rpc = "abacus"
    /\ \E opened \in BOOLEAN :
         IF opened
         THEN /\ abacus' = TRUE
              /\ rpc' = "hist"
              /\ UNCHANGED result
         ELSE /\ result' = "Err"
              /\ rpc' = "returned"
              /\ UNCHANGED abacus
    /\ UNCHANGED <<params, path_segments, abacus_aux, hist, out, threshold_str, thresholds>>
    /\ UNCHANGED <<scanner, cum, multi, hg, pre, pipeline>>

\* cli.rs lines 300-318: the histogram, of h entries when it is read from a file
BuildHist ==
    /\ rpc = "hist"
    /\ \E h \in 0..MaxRunSize, loaded \in BOOLEAN :
         IF params = "Growth" /\ ~loaded
         THEN /\ result' = "Err"
              /\ rpc' = "returned"
              /\ UNCHANGED hist
         ELSE /\ hist' = IF params = "OrderedHistgrowth" THEN 0
                         ELSE IF params = "Growth" THEN h
                         ELSE path_segments + 1
              /\ rpc' = "output"
              /\ UNCHANGED result
    /\ UNCHANGED <<params, path_segments, abacus_aux, abacus, out, threshold_str, thresholds>>
    /\ UNCHANGED <<scanner, cum, multi, hg, pre, pipeline>>

\* cli.rs lines 323-371: the growth table under the threshold list str, or the
\* histogram table
Output ==
    /\ rpc = "output"
    /\ rpc' = "returned"
    /\ IF params = "OrderedHistgrowth"
       THEN /\ result' = "panic"
            /\ UNCHANGED <<out, threshold_str, thresholds>>
       ELSE IF params = "Hist"
       THEN /\ result' = "Ok"
            /\ out' = out + hist
            /\ UNCHANGED <<threshold_str, thresholds>>
       ELSE \E str \in SeqsUpTo(Chars, MaxThresholdLen) :
              \E r \in {parse_threshold_cli(str)} :
                 /\ threshold_str' = str
                 /\ thresholds' = r
                 /\ result' = IF ~r.ok THEN "Err" ELSE IF hist = 0 THEN "panic" ELSE "Ok"
                 /\ out' = IF ~r.ok THEN out ELSE IF hist = 0 THEN out + 2
                           ELSE out + 2 + (hist - 1)
    /\ UNCHANGED <<params, path_segments, abacus_aux, abacus, hist>>
    /\ UNCHANGED <<scanner, cum, multi, hg, pre, pipeline>>

NextCli ==
    \/ ReadParams
    \/ IndexGraph
    \/ BuildAbacus
    \/ BuildHist
    \/ Output

SpecCli ==
    InitNoScan /\ [][NextCli]_vars

\* ---------------------------------------------------------------------------
\* histgrowth.rs: Histgrowth::build and Histgrowth::write_table, run twice
\* ---------------------------------------------------------------------------

\* the orders in which the elements of the set S can be visited
IterationOrders(S) ==
    {q \in SeqsUpTo(S, Cardinality(S)) : Range(q) = S}

\* histgrowth.rs lines 213-224 and the histograms the broker builds for them: the
\* same input for both runs
GetHists ==
    /\ hists = <<>>
    /\ \E req \in {{"Node"}, {"Bp"}, {"Edge"}, {"Node", "Bp", "Edge"}} :
         /\ \E h \in [req -> 1..MaxHistValue] : hists' = h
         /\ \E o \in [{1, 2} -> IterationOrders(req)] : values_order' = o
    /\ \E m \in 1..MaxCurves : curves' = m
    /\ growths' = [r \in {1, 2} |-> <<>>]
    /\ table' = [r \in {1, 2} |-> <<>>]
    /\ UNCHANGED <<scanner, cum, multi, cli, pre, pipeline>>

\* histgrowth.rs lines 27-42 for one of the runs: par_bridge().map(..).collect()
\* gathers the growths in the order in which the pool finishes the histograms
Build ==
    /\ hists # <<>>
    /\ \E r \in {1, 2} : \E done \in IterationOrders(DOMAIN hists) :
         /\ growths[r] = <<>>
         /\ growths' = [growths EXCEPT ![r] =
                           [k \in 1..Len(done) |->
                               <<done[k],
                                 [j \in 1..curves |-> <<"growth", j, hists[done[k]]>>]>>]]
    /\ UNCHANGED <<hists, curves, values_order, table>>
    /\ UNCHANGED <<scanner, cum, multi, cli, pre, pipeline>>

RECURSIVE GrowthColumns(_)
\* histgrowth.rs lines 74-87: the columns of the growths, in the order of self.growths
GrowthColumns(g) ==
    IF g = <<>> THEN <<>>
    ELSE [j \in 1..Len(Head(g)[2]) |->
             [header |-> <<"growth", Head(g)[1], j>>, column |-> Head(g)[2][j]]]
         \o GrowthColumns(Tail(g))

\* histgrowth.rs lines 44-89 for one of the runs
WriteTable ==
    /\ hists # <<>>
    /\ \E r \in {1, 2} :
         /\ growths[r] # <<>>
         /\ table[r] = <<>>
         /\ table' = [table EXCEPT ![r] =
                         [k \in 1..Len(values_order[r]) |->
                             [header |-> <<"hist", values_order[r][k], 0>>,
                              column |-> hists[values_order[r][k]]]]
                         \o GrowthColumns(growths[r])]
    /\ UNCHANGED <<hists, curves, values_order, growths>>
    /\ UNCHANGED <<scanner, cum, multi, cli, pre, pipeline>>

NextHistgrowth ==
    \/ GetHists
    \/ Build
    \/ WriteTable

SpecHistgrowth ==
    InitNoScan /\ [][NextHistgrowth]_vars

\* ---------------------------------------------------------------------------
\* Properties of the cumulative count
\* ---------------------------------------------------------------------------

\* the Orientation of a Handle
OrientationOf(h) ==
    IF h[2] THEN "Backward" ELSE "Forward"

\* C12: for every traversal v -> u of the path consumed last, the key of
\* cumulative_count_edges equals the key of the reverse-complement traversal
\* flip(u) -> flip(v), and so does the canonical edge of update_tables_edgecount.
C12_EdgeKeySymmetric ==
    (count_type = "edges" /\ cpc # "panicked") =>
        \A j \in 1..(Len(seq) - 1) :
            LET v == seq[j]
                u == seq[j + 1]
            IN /\ EdgeKey(v, u) = EdgeKey(flip_handle(u), flip_handle(v))
               /\ canonical(v[1], OrientationOf(v), u[1], OrientationOf(u))
                      = canonical(u[1], flip(OrientationOf(u)), v[1], flip(OrientationOf(v)))

\* C13: the coverage stored for a key is at least 0 and at most the number of
\* haplotype groups started, and it equals the number of groups in which the key
\* occurred, however often it occurred inside one group.
C13_CoverageCountsGroups ==
    /\ {p[1] : p \in occurred} = VisitedKeys(visited)
    /\ \A k \in VisitedKeys(visited) :
           /\ Coverage(visited, k) >= 0
           /\ Coverage(visited, k) <= groups
           /\ Coverage(visited, k) = Cardinality({g \in 1..groups : <<k, g>> \in occurred})

\* a key that occurred more than once inside one of several groups and has coverage 1
C13_Witness ==
    /\ groups >= 2
    /\ \E p \in repeats : Coverage(visited, p[1]) = 1

\* C14: the cumulative count of the rows is non-decreasing from row to row, at
\* least 0, and never above the number of distinct countables (nodes, or graph
\* edges) the consumed paths walk over.
C14_GrowthMonotoneBounded ==
    \A m \in 1..Len(res) :
        /\ res[m].new >= 0
        /\ res[m].new <= Cardinality(present)
        /\ m > 1 => res[m - 1].new <= res[m].new

\* the number of the first m haplotype groups the key k occurred in
PresentIn(k, m) ==
    Cardinality({g \in 1..m : <<k, g>> \in occurred})

\* C15: row m of the result reports as major exactly the keys that occurred in at
\* least ceil(m / 2) of the first m haplotype groups, and as shared exactly the
\* keys that occurred in all m of them.
C15_MajorIsHalfRoundedUp ==
    \A m \in 1..Len(res) :
        /\ res[m].major = Cardinality({k \in VisitedKeys(visited) :
                                          /\ PresentIn(k, m) >= 1
                                          /\ PresentIn(k, m) >= MajorThreshold_Ceil(m)})
        /\ res[m].shared = Cardinality({k \in VisitedKeys(visited) : PresentIn(k, m) = m})

\* ---------------------------------------------------------------------------
\* Properties of the multiple scan
\* ---------------------------------------------------------------------------

ParsedThresholds ==
    rpc = "returned" /\ hist >= 0 /\ params \in {"Histgrowth", "Growth"}

\* the entry without the blanks around it
Core(e) ==
    LET solid == {k \in DOMAIN e : e[k] # " "}
    IN IF solid = {} THEN <<>>
       ELSE SubSeq(e, CHOOSE a \in solid : \A k \in solid : a <= k,
                      CHOOSE b \in solid : \A k \in solid : b >= k)

\* an unsigned integer: digits only, at least one
LooksUnsigned(t) ==
    t # <<>> /\ \A k \in DOMAIN t : t[k] \in Digits

\* a float: an optional sign, digits around at most one point, at least one digit
LooksFloat(t) ==
    LET m == IF t # <<>> /\ t[1] = "-" THEN Tail(t) ELSE t
    IN /\ \A k \in DOMAIN m : m[k] \in Digits \cup {"."}
       /\ \A j, k \in DOMAIN m : (m[j] = "." /\ m[k] = ".") => j = k
       /\ \E k \in DOMAIN m : m[k] \in Digits

\* C17: parse_threshold_cli returns one threshold per entry of the list, in the
\* order of the list, Absolute for an entry that is an unsigned integer once
\* trimmed and Relative for any other entry that is a float (an entry with a point
\* among them); when some entry is neither, it returns an error with the 1-based
\* position of the first such entry and no list.
C17_ThresholdPerEntry ==
    ParsedThresholds =>
        LET els == Split(threshold_str)
            bad == {k \in DOMAIN els :
                       ~LooksUnsigned(Core(els[k])) /\ ~LooksFloat(Core(els[k]))}
        IN IF bad = {}
           THEN /\ thresholds.ok
                /\ Len(thresholds.list) = Len(els)
                /\ \A k \in DOMAIN els :
                       /\ thresholds.list[k].kind =
                              IF LooksUnsigned(Core(els[k])) THEN "Absolute" ELSE "Relative"
                       /\ "." \in Range(els[k]) => thresholds.list[k].kind = "Relative"
                       /\ LooksUnsigned(Core(els[k])) =>
                              thresholds.list[k].v = DecimalValue(Core(els[k]))
           ELSE /\ ~thresholds.ok
                /\ thresholds.list = <<>>
                /\ thresholds.pos \in bad
                /\ \A k \in bad : thresholds.pos <= k

\* a list of three entries whose second and third are neither: the error names 2
C17_Witness ==
    /\ ParsedThresholds
    /\ Len(Split(threshold_str)) = 3
    /\ LooksUnsigned(Core(Split(threshold_str)[1]))
    /\ ~thresholds.ok
    /\ thresholds.pos = 2
    /\ result = "Err"

\* C18: when the indexed graph has no P/W line, run has returned success, has
\* not loaded the masks, has built neither an abacus nor a histogram, and has
\* written no line.
C18_EmptyGraphReturnsOk ==
    path_segments = 0 =>
        /\ rpc = "returned"
        /\ result = "Ok"
        /\ ~abacus_aux
        /\ ~abacus
        /\ hist = -1
        /\ out = 0

\* a histgrowth run on a graph that was indexed and has no P/W line has returned
C18_Witness ==
    /\ params = "Histgrowth"
    /\ path_segments = 0
    /\ rpc = "returned"
    /\ result = "Ok"

\* C19: two histgrowth runs on the same input that iterate the histogram
\* collection in the same order write the same table: the same hist and growth
\* columns, in the same order, with the same headers and values, whatever the
\* scheduling of the parallel growth computation.
C19_TablesIdentical ==
    (/\ hists # <<>>
     /\ values_order[1] = values_order[2]
     /\ table[1] # <<>>
     /\ table[2] # <<>>) => table[1] = table[2]

\* ---------------------------------------------------------------------------
\* preprocess_instructions (src/src/lib.rs): one call on a list of Graph,
\* Subset, Hist, Info and Growth sections.  A section is a record of its kind
\* and of the fields the function reads: name and file of a Graph or Subset,
\* name, graph and subset of a Hist, graph and subset of an Info, hist of a
\* Growth ("" where the variant has no such field, or None).
\* ---------------------------------------------------------------------------

\* format!("PANACUS_INTERNAL_GRAPH_{}", counter)
InternalName(k) ==
    "PANACUS_INTERNAL_GRAPH_" \o ToString(k)

\* the sections a call is given: one declared graph, one declared subset, Hist
\* and Info sections naming the declared graph or a graph file, named Hist
\* sections, and Growth sections naming a Hist or a .tsv file
InstructionAlphabet ==
    {[kind |-> "Graph", name |-> "g", file |-> "a.gfa", graph |-> "", subset |-> "", hist |-> ""],
     [kind |-> "Subset", name |-> "s", file |-> "s.bed", graph |-> "", subset |-> "", hist |-> ""],
     [kind |-> "Info", name |-> "", file |-> "", graph |-> "g", subset |-> "s", hist |-> ""],
     [kind |-> "Info", name |-> "", file |-> "", graph |-> "a.gfa", subset |-> "", hist |-> ""]}
    \cup {[kind |-> "Hist", name |-> "", file |-> "", graph |-> g, subset |-> "", hist |-> ""] :
            g \in {"a.gfa", "b.gfa"}}
    \cup {[kind |-> "Hist", name |-> "", file |-> "", graph |-> g, subset |-> "s", hist |-> ""] :
            g \in {"g", "a.gfa"}}
    \cup {[kind |-> "Hist", name |-> n, file |-> "", graph |-> "g", subset |-> "", hist |-> ""] :
            n \in {"A", "B"}}
    \cup {[kind |-> "Growth", name |-> "", file |-> "", graph |-> "", subset |-> "", hist |-> h] :
            h \in {"A", "B", "h.tsv"}}

\* lib.rs lines 203-221: the call, and the two maps collected from the argument
ReadInstructions ==
    /\ ipc = "start"
    /\ \E n \in 1..MaxInstructions :
         \E arg \in [1..n -> InstructionAlphabet] :
           /\ instructions' = arg
           /\ graphs' = {arg[i].name : i \in {j \in 1..n : arg[j].kind = "Graph"}}
           /\ subsets' = [nm \in {arg[i].name : i \in {j \in 1..n : arg[j].kind = "Subset"}} |->
                            arg[CHOOSE i \in 1..n :
                                  /\ arg[i].kind = "Subset"
                                  /\ arg[i].name = nm
                                  /\ \A j \in (i + 1)..n :
                                       ~(arg[j].kind = "Subset" /\ arg[j].name = nm)].file]
    /\ ipc' = "map"
    /\ UNCHANGED <<new_instructions, counter, consumed, mapped, preprocessed>>
    /\ UNCHANGED <<scanner, cum, multi, cli, hg, pipeline>>

\* the map closure that passes the subset of a Hist or Info on as it is
MapInstruct_KeepSubset ==
    /\ ipc = "map"
    /\ consumed < Len(instructions)
    /\ LET instruct == instructions[consumed + 1]
           synthesized == \E i \in new_instructions : i.file = instruct.graph
           count_up == IF synthesized THEN counter ELSE counter + 1
       IN  IF instruct.kind = "Subset"
           THEN UNCHANGED <<new_instructions, counter, mapped>>
           ELSE IF instruct.kind \in {"Hist", "Info"} /\ instruct.graph \notin graphs
           THEN /\ counter' = count_up
                /\ new_instructions' =
                     IF synthesized
                     THEN new_instructions
                     ELSE new_instructions \cup
                            {[kind |-> "Graph", name |-> InternalName(count_up),
                              file |-> instruct.graph, graph |-> "", subset |-> "",
                              hist |-> ""]}
                /\ mapped' = Append(mapped, [instruct EXCEPT !.graph = InternalName(count_up)])
           ELSE /\ mapped' = Append(mapped, instruct)
                /\ UNCHANGED <<new_instructions, counter>>
    /\ consumed' = consumed + 1
    /\ UNCHANGED <<instructions, ipc, graphs, subsets, preprocessed>>
    /\ UNCHANGED <<scanner, cum, multi, cli, hg, pipeline>>

\* lib.rs lines 231-351: the filter and the closure of the map, on the next
\* section of the argument
MapInstruct ==
    /\ ipc = "map"
    /\ consumed < Len(instructions)
    /\ LET instruct == instructions[consumed + 1]
           subset == IF instruct.subset \in DOMAIN subsets
                     THEN subsets[instruct.subset]
                     ELSE instruct.subset
           synthesized == \E i \in new_instructions : i.file = instruct.graph
           count_up == IF synthesized THEN counter ELSE counter + 1
       IN  IF instruct.kind = "Subset"
           THEN UNCHANGED <<new_instructions, counter, mapped>>
           ELSE IF instruct.kind \in {"Hist", "Info"}
           THEN IF instruct.graph \notin graphs
                THEN /\ counter' = count_up
                     /\ new_instructions' =
                          IF synthesized
                          THEN new_instructions
                          ELSE new_instructions \cup
                                 {[kind |-> "Graph", name |-> InternalName(count_up),
                                   file |-> instruct.graph, graph |-> "", subset |-> "",
                                   hist |-> ""]}
                     /\ mapped' = Append(mapped, [instruct EXCEPT !.graph = InternalName(count_up),
                                                                  !.subset = subset])
                ELSE /\ mapped' = Append(mapped, [instruct EXCEPT !.subset = subset])
                     /\ UNCHANGED <<new_instructions, counter>>
           ELSE /\ mapped' = Append(mapped, instruct)
                /\ UNCHANGED <<new_instructions, counter>>
    /\ consumed' = consumed + 1
    /\ UNCHANGED <<instructions, ipc, graphs, subsets, preprocessed>>
    /\ UNCHANGED <<scanner, cum, multi, cli, hg, pipeline>>

\* lib.rs lines 383-400
insert_after_graph(parameter, graph, current) ==
    LET found == {i \in 1..Len(current) :
                    current[i].kind = "Graph" /\ current[i].name = graph}
    IN  IF found = {}
        THEN Append(current, parameter)
        ELSE LET i == CHOOSE j \in found : \A k \in found : j <= k
             IN  SubSeq(current, 1, i) \o <<parameter>> \o SubSeq(current, i + 1, Len(current))

\* the sort that leaves the other sections as they were inserted: no reverse
sort_instructions_NoReverse(graph_statements, others) ==
    LET IsNamed(nm) == LET Test(i) == i.name = nm IN SelectSeq(graph_statements, Test)
        sorted == IsNamed(InternalName(1)) \o IsNamed(InternalName(2))
                    \o IsNamed(InternalName(3)) \o IsNamed(InternalName(4)) \o IsNamed("g")
        RECURSIVE Insert(_, _)
        Insert(rest, current) ==
            IF rest = <<>>
            THEN current
            ELSE IF Head(rest).kind \in {"Hist", "Info"}
            THEN Insert(Tail(rest), insert_after_graph(Head(rest), Head(rest).graph, current))
            ELSE Insert(Tail(rest), <<Head(rest)>> \o current)
    IN  Insert(others, sorted)

\* lib.rs lines 359-381: the Graph sections in ascending order of their names
\* (the names that occur, in byte order), then every other section, from the
\* last of the sorted list to the first, inserted after its graph or, if it is
\* no Hist or Info, at the front; others is the sorted list of the other sections
sort_instructions(graph_statements, others) ==
    sort_instructions_NoReverse(graph_statements,
                                [i \in 1..Len(others) |-> others[Len(others) + 1 - i]])

\* Ord::cmp of two Hist or Info sections, a <= b: by name, then by subset, None
\* before Some and strings in byte order
cmp(a, b) ==
    LET order == <<"", "A", "B", "s", "s.bed">>
        rank(x) == CHOOSE i \in 1..Len(order) : order[i] = x
    IN  \/ rank(a.name) < rank(b.name)
        \/ rank(a.name) = rank(b.name) /\ rank(a.subset) <= rank(b.subset)

\* lib.rs lines 352-354: the end of the map, the synthesized sections appended
\* and the list sorted.  others.sort() is stable and orders the Hist and Info
\* sections by cmp; where a Growth stands among the others is left open.
SortInstructions ==
    /\ ipc = "map"
    /\ consumed = Len(instructions)
    /\ LET IsGraph(i) == i.kind = "Graph"
           IsOther(i) == i.kind # "Graph"
           os == SelectSeq(mapped, IsOther)
           HistInfo == {i \in 1..Len(os) : os[i].kind \in {"Hist", "Info"}}
       IN  \E extra \in IterationOrders(new_instructions) :
             \E order \in IterationOrders(1..Len(os)) :
               /\ \A i, j \in 1..Len(os) :
                    (i < j /\ order[i] \in HistInfo /\ order[j] \in HistInfo) =>
                      /\ cmp(os[order[i]], os[order[j]])
                      /\ cmp(os[order[j]], os[order[i]]) => order[i] < order[j]
               /\ preprocessed' = sort_instructions(SelectSeq(mapped, IsGraph) \o extra,
                                                    [i \in 1..Len(os) |-> os[order[i]]])
    /\ ipc' = "group"
    /\ UNCHANGED <<instructions, graphs, subsets, new_instructions, counter, consumed, mapped>>
    /\ UNCHANGED <<scanner, cum, multi, cli, hg, pipeline>>

\* the scan that looks at the first section only
has_ungrouped_growth_FirstOnly(list) ==
    /\ list # <<>>
    /\ list[1].kind = "Growth"
    /\ list[1].hist # "h.tsv"

\* lib.rs lines 434-454; the hist of a Growth ends with ".tsv" exactly if it is
\* "h.tsv" here
has_ungrouped_growth(list) ==
    \E i \in 1..Len(list) :
      /\ list[i].kind = "Growth"
      /\ list[i].hist # "h.tsv"
      /\ \A j \in 1..(i - 1) : list[j].kind # "Hist"

\* the turn that inserts the Growth in front of its Hist
GroupFirstUngroupedGrowth_BeforeHist ==
    /\ ipc = "group"
    /\ IF ~has_ungrouped_growth(preprocessed)
       THEN /\ ipc' = "returned"
            /\ UNCHANGED preprocessed
       ELSE LET index_growth == CHOOSE i \in 1..Len(preprocessed) :
                                  /\ preprocessed[i].kind = "Growth"
                                  /\ \A j \in 1..(i - 1) : preprocessed[j].kind # "Growth"
                growth_instruction == preprocessed[index_growth]
                removed == SubSeq(preprocessed, 1, index_growth - 1)
                             \o SubSeq(preprocessed, index_growth + 1, Len(preprocessed))
                hits == {i \in 1..Len(removed) :
                           /\ removed[i].kind = "Hist"
                           /\ removed[i].name # ""
                           /\ removed[i].name = growth_instruction.hist}
            IN  IF hits = {}
                THEN /\ ipc' = "error"
                     /\ UNCHANGED preprocessed
                ELSE LET index_hist == CHOOSE i \in hits : \A k \in hits : i <= k
                     IN  /\ preprocessed' = SubSeq(removed, 1, index_hist - 1)
                                              \o <<growth_instruction>>
                                              \o SubSeq(removed, index_hist, Len(removed))
                         /\ UNCHANGED ipc
    /\ UNCHANGED <<instructions, graphs, subsets, new_instructions, counter, consumed, mapped>>
    /\ UNCHANGED <<scanner, cum, multi, cli, hg, pipeline>>

\* lib.rs lines 355-356 and 402-432: one turn of the loop of
\* group_growths_to_hists, which ends the call with Ok when no Growth is left
\* ungrouped and with NameNotFound when the first Growth names no Hist
GroupFirstUngroupedGrowth ==
    /\ ipc = "group"
    /\ IF ~has_ungrouped_growth(preprocessed)
       THEN /\ ipc' = "returned"
            /\ UNCHANGED preprocessed
       ELSE LET index_growth == CHOOSE i \in 1..Len(preprocessed) :
                                  /\ preprocessed[i].kind = "Growth"
                                  /\ \A j \in 1..(i - 1) : preprocessed[j].kind # "Growth"
                growth_instruction == preprocessed[index_growth]
                removed == SubSeq(preprocessed, 1, index_growth - 1)
                             \o SubSeq(preprocessed, index_growth + 1, Len(preprocessed))
                hits == {i \in 1..Len(removed) :
                           /\ removed[i].kind = "Hist"
                           /\ removed[i].name # ""
                           /\ removed[i].name = growth_instruction.hist}
            IN  IF hits = {}
                THEN /\ ipc' = "error"
                     /\ UNCHANGED preprocessed
                ELSE LET index_hist == CHOOSE i \in hits : \A k \in hits : i <= k
                     IN  /\ preprocessed' = SubSeq(removed, 1, index_hist)
                                              \o <<growth_instruction>>
                                              \o SubSeq(removed, index_hist + 1, Len(removed))
                         /\ UNCHANGED ipc
    /\ UNCHANGED <<instructions, graphs, subsets, new_instructions, counter, consumed, mapped>>
    /\ UNCHANGED <<scanner, cum, multi, cli, hg, pipeline>>

NextPreprocess ==
    \/ ReadInstructions
    \/ MapInstruct
    \/ SortInstructions
    \/ GroupFirstUngroupedGrowth

\* one call of preprocess_instructions
SpecPreprocess ==
    InitNoScan /\ [][NextPreprocess]_vars

\* ---------------------------------------------------------------------------
\* get_tasks and execute_pipeline (src/src/lib.rs) with the report of
\* src/src/html_report.rs.  The sections are those preprocess_instructions
\* returns: Graph sections A (a.gfa) and B (b.gfa), Hist sections behind the
\* Graph section they name, Growth sections.  None is written "None"; a Hist
\* stands for Info as well, which get_tasks treats alike.  A GraphBroker is the
\* record of what from_gfa, include_coords, exclude_coords, with_group and
\* finish were called with.
\* ---------------------------------------------------------------------------

\* lib.rs lines 111-201: get_tasks on some list of sections, and the arguments
\* of execute_pipeline
GetTasks ==
    /\ tpc = "start"
    /\ LET Alphabet ==
               {[kind |-> "Graph", name |-> n, file |-> f, graph |-> "", subset |-> "None",
                 exclude |-> "", grouping |-> "None"] :
                    <<n, f>> \in {<<"A", "a.gfa">>, <<"B", "b.gfa">>}}
               \cup {[kind |-> "Hist", name |-> "", file |-> "", graph |-> "", subset |-> s,
                      exclude |-> e, grouping |-> g] :
                         s \in {"None", "s.bed"}, e \in {"", "e.bed"}, g \in {"None", "h"}}
               \cup {[kind |-> "Growth", name |-> "", file |-> "", graph |-> "",
                      subset |-> "None", exclude |-> "", grouping |-> "None"]}
           Push(s, t) == [s EXCEPT !.tasks = Append(@, t)]
           Change(s, what, v, current) ==
               IF v # current THEN Push(s, [task |-> what, value |-> v, reqs |-> {}, a |-> <<>>])
               ELSE s
           Closed(s) ==
               IF s.tasks[s.last_graph_change].task = "GraphChange"
               THEN [s EXCEPT !.tasks[s.last_graph_change].reqs = s.reqs, !.reqs = {}]
               ELSE s
           RECURSIVE Loop(_, _)
           Loop(rest, s) ==
               IF rest = <<>> THEN s
               ELSE LET instruction == Head(rest)
                    IN  IF instruction.kind = "Graph"
                        THEN LET s1 == Closed(Push(s, [task |-> "GraphChange", value |-> "",
                                                       reqs |-> {}, a |-> <<>>]))
                             IN  Loop(Tail(rest),
                                      [s1 EXCEPT !.reqs = @ \cup {instruction.file},
                                                 !.last_graph_change = Len(s1.tasks)])
                        ELSE IF instruction.kind = "Hist"
                        THEN LET s1 == Change(s, "SubsetChange", instruction.subset,
                                              s.current_subset)
                                 s2 == Change(s1, "ExcludeChange", instruction.exclude,
                                              s.current_exclude)
                                 s3 == Change(s2, "GroupingChange", instruction.grouping,
                                              s.current_grouping)
                                 s4 == Push(s3, [task |-> "Analysis", value |-> "", reqs |-> {},
                                                 a |-> instruction])
                             IN  Loop(Tail(rest),
                                      [s4 EXCEPT !.current_subset = instruction.subset,
                                                 !.current_exclude = instruction.exclude,
                                                 !.current_grouping = instruction.grouping,
                                                 !.reqs = @ \cup {"Hist"}])
                        ELSE Loop(Tail(rest),
                                  Push(s, [task |-> "Analysis", value |-> "", reqs |-> {},
                                           a |-> instruction]))
           get_tasks(list) ==
               LET s == Loop(list, [tasks |-> <<>>, reqs |-> {}, last_graph_change |-> 1,
                                    current_subset |-> "None", current_exclude |-> "",
                                    current_grouping |-> "None"])
               IN  IF s.tasks[s.last_graph_change].task = "GraphChange"
                   THEN [s.tasks EXCEPT ![s.last_graph_change].reqs = s.reqs]
                   ELSE s.tasks
       IN  \E n \in 1..MaxPipeline :
             \E arg \in [1..n -> Alphabet] :
               /\ \A i \in 1..n :
                    arg[i].kind = "Hist" => \E j \in 1..(i - 1) : arg[j].kind = "Graph"
               /\ tasks' = get_tasks(
                    [i \in 1..n |->
                       IF arg[i].kind # "Hist" THEN arg[i]
                       ELSE [arg[i] EXCEPT !.graph =
                               arg[CHOOSE j \in 1..(i - 1) :
                                     /\ arg[j].kind = "Graph"
                                     /\ \A k \in (j + 1)..(i - 1) : arg[k].kind # "Graph"].name]])
    /\ shall_write_html' \in BOOLEAN
    /\ tpc' = "run"
    /\ UNCHANGED <<index, gb, report, trace, js_objects>>
    /\ UNCHANGED <<scanner, cum, multi, cli, hg, pre>>

\* the turn that calls finish() after every change
ExecuteTask_AlwaysFinish ==
    /\ tpc = "run"
    /\ index < Len(tasks)
    /\ LET t == tasks[index + 1]
           is_next_analysis == TRUE
           changed == IF t.task = "GraphChange"
                      THEN [some |-> TRUE, files |-> t.reqs \cap {"a.gfa", "b.gfa"},
                            subset |-> "None", exclude |-> "", grouping |-> "None",
                            finished |-> FALSE]
                      ELSE IF t.task = "SubsetChange"
                      THEN [gb EXCEPT !.subset = t.value, !.finished = FALSE]
                      ELSE IF t.task = "ExcludeChange"
                      THEN [gb EXCEPT !.exclude = t.value, !.finished = FALSE]
                      ELSE [gb EXCEPT !.grouping = t.value, !.finished = FALSE]
           after == IF is_next_analysis THEN [changed EXCEPT !.finished = TRUE] ELSE changed
       IN  IF t.task = "Analysis"
           THEN /\ \E has_table \in BOOLEAN :
                     report' = Append(report, [id |-> index + 1, table |-> has_table,
                                               items |-> IF t.a.kind = "Hist" THEN 2 ELSE 1])
                /\ trace' = Append(trace, [ev |-> "analysis", a |-> t.a, gb |-> gb])
                /\ tpc' = IF index + 1 = Len(tasks) THEN "write" ELSE "run"
                /\ UNCHANGED gb
           ELSE IF t.task # "GraphChange" /\ (~gb.some \/ (t.task = "SubsetChange" /\ t.value = "None"))
           THEN /\ tpc' = "panic"
                /\ UNCHANGED <<gb, report, trace>>
           ELSE /\ gb' = after
                /\ trace' = trace \o <<[ev |-> "change", a |-> <<>>, gb |-> changed]>>
                              \o (IF is_next_analysis
                                  THEN <<[ev |-> "finish", a |-> <<>>, gb |-> after]>>
                                  ELSE <<>>)
                /\ tpc' = IF index + 1 = Len(tasks) THEN "write" ELSE "run"
                /\ UNCHANGED report
    /\ index' = index + 1
    /\ UNCHANGED <<tasks, shall_write_html, js_objects>>
    /\ UNCHANGED <<scanner, cum, multi, cli, hg, pre>>

\* lib.rs lines 495-538: one turn of the loop of execute_pipeline.  An analysis
\* adds its section to the report, with or without a table.
ExecuteTask ==
    /\ tpc = "run"
    /\ index < Len(tasks)
    /\ LET t == tasks[index + 1]
           is_next_analysis == Len(tasks) > index + 1 /\ tasks[index + 2].task = "Analysis"
           changed == IF t.task = "GraphChange"
                      THEN [some |-> TRUE, files |-> t.reqs \cap {"a.gfa", "b.gfa"},
                            subset |-> "None", exclude |-> "", grouping |-> "None",
                            finished |-> FALSE]
                      ELSE IF t.task = "SubsetChange"
                      THEN [gb EXCEPT !.subset = t.value, !.finished = FALSE]
                      ELSE IF t.task = "ExcludeChange"
                      THEN [gb EXCEPT !.exclude = t.value, !.finished = FALSE]
                      ELSE [gb EXCEPT !.grouping = t.value, !.finished = FALSE]
           after == IF is_next_analysis THEN [changed EXCEPT !.finished = TRUE] ELSE changed
       IN  IF t.task = "Analysis"
           THEN /\ \E has_table \in BOOLEAN :
                     report' = Append(report, [id |-> index + 1, table |-> has_table,
                                               items |-> IF t.a.kind = "Hist" THEN 2 ELSE 1])
                /\ trace' = Append(trace, [ev |-> "analysis", a |-> t.a, gb |-> gb])
                /\ tpc' = IF index + 1 = Len(tasks) THEN "write" ELSE "run"
                /\ UNCHANGED gb
           ELSE IF t.task # "GraphChange" /\ (~gb.some \/ (t.task = "SubsetChange" /\ t.value = "None"))
           THEN /\ tpc' = "panic"
                /\ UNCHANGED <<gb, report, trace>>
           ELSE /\ gb' = after
                /\ trace' = trace \o <<[ev |-> "change", a |-> <<>>, gb |-> changed]>>
                              \o (IF is_next_analysis
                                  THEN <<[ev |-> "finish", a |-> <<>>, gb |-> after]>>
                                  ELSE <<>>)
                /\ tpc' = IF index + 1 = Len(tasks) THEN "write" ELSE "run"
                /\ UNCHANGED report
    /\ index' = index + 1
    /\ UNCHANGED <<tasks, shall_write_html, js_objects>>
    /\ UNCHANGED <<scanner, cum, multi, cli, hg, pre>>

\* html_report.rs lines 14-21; a JsVars maps a key to the ids it holds
combine_vars(a, b) ==
    [k \in DOMAIN a |-> IF k \in DOMAIN b THEN a[k] \cup b[k] ELSE a[k]]

\* lib.rs lines 539-551 with html_report.rs lines 33-65 and 234-253: the report
\* is rendered from the sections, or the table of the last analysis is written
WriteReport ==
    /\ tpc = "write"
    /\ LET RECURSIVE reduce(_)
           reduce(objects) ==
               IF Len(objects) = 1 THEN objects[1]
               ELSE combine_vars(reduce(SubSeq(objects, 1, Len(objects) - 1)),
                                 objects[Len(objects)])
           item_objects(section) ==
               [k \in 1..section.items |->
                  IF k = 1 /\ section.table
                  THEN [key \in {"datasets", "tables"} |->
                          IF key = "datasets" THEN {<<section.id, k>>} ELSE {section.id}]
                  ELSE [key \in {"datasets"} |-> {<<section.id, k>>}]]
           into_html(section) == reduce(item_objects(section))
       IN  IF ~shall_write_html
           THEN /\ tpc' = "done"
                /\ UNCHANGED js_objects
           ELSE IF report = <<>>
           THEN /\ tpc' = "panic"
                /\ UNCHANGED js_objects
           ELSE /\ js_objects' = reduce([i \in 1..Len(report) |-> into_html(report[i])])
                /\ tpc' = "done"
    /\ UNCHANGED <<tasks, shall_write_html, index, gb, report, trace>>
    /\ UNCHANGED <<scanner, cum, multi, cli, hg, pre>>

NextPipeline ==
    \/ GetTasks
    \/ ExecuteTask
    \/ WriteReport

\* one run of get_tasks and execute_pipeline
SpecPipeline ==
    InitNoScan /\ [][NextPipeline]_vars

\* C20: after preprocess_instructions, every Hist/Info whose graph was not the
\* name of a declared Graph section names a synthesized section
\* PANACUS_INTERNAL_GRAPH_k whose file is the instruction's original graph
\* string, and there is exactly one synthesized section per distinct undeclared
\* graph file.
C20_RewrittenToOwnFile ==
    ipc = "returned" =>
      LET NotSubset(i) == i.kind # "Subset"
          given == SelectSeq(instructions, NotSubset)
          internal == {InternalName(k) : k \in 1..MaxInstructions}
          undeclared == {j \in 1..Len(given) :
                           given[j].kind \in {"Hist", "Info"} /\ given[j].graph \notin graphs}
          made == {i \in 1..Len(preprocessed) :
                     preprocessed[i].kind = "Graph" /\ preprocessed[i].name \in internal}
      IN  /\ \A j \in undeclared :
                /\ mapped[j].graph \in internal
                /\ \E i \in made :
                     /\ preprocessed[i].name = mapped[j].graph
                     /\ preprocessed[i].file = given[j].graph
          /\ \A j \in undeclared :
                Cardinality({i \in made : preprocessed[i].file = given[j].graph}) = 1
          /\ Cardinality(made) = Cardinality({given[j].graph : j \in undeclared})

\* C21: in the list preprocess_instructions returns, every Hist/Info whose
\* subset was the name of a declared Subset section carries that section's
\* file as its subset, every other Hist/Info carries the subset it was given,
\* and no Subset section is left.
C21_SubsetReplaced ==
    ipc = "returned" =>
      LET NotSubset(i) == i.kind # "Subset"
          given == SelectSeq(instructions, NotSubset)
          declared == {i \in 1..Len(instructions) : instructions[i].kind = "Subset"}
          Expected(s) == IF \E i \in declared : instructions[i].name = s
                         THEN instructions[CHOOSE i \in declared : instructions[i].name = s].file
                         ELSE s
          Times(list, x) == Cardinality({i \in 1..Len(list) : list[i] = x})
      IN  /\ \A i \in 1..Len(preprocessed) : preprocessed[i].kind # "Subset"
          /\ Len(mapped) = Len(given)
          /\ \A j \in 1..Len(given) :
                given[j].kind \in {"Hist", "Info"} =>
                  /\ mapped[j].subset = Expected(given[j].subset)
                  /\ Times(preprocessed, mapped[j]) = Times(mapped, mapped[j])

\* a returned list with a Hist whose subset name was replaced by the file, next
\* to a section whose subset was not a declared name
C21_Witness ==
    /\ ipc = "returned"
    /\ \E i \in 1..Len(instructions) : instructions[i].kind = "Subset"
    /\ \E i \in 1..Len(instructions) :
         instructions[i].kind \in {"Hist", "Info"} /\ instructions[i].subset = "s"
    /\ \E i \in 1..Len(preprocessed) :
         preprocessed[i].kind \in {"Hist", "Info"} /\ preprocessed[i].subset = "s.bed"
    /\ \E i \in 1..Len(preprocessed) :
         preprocessed[i].kind = "Hist" /\ preprocessed[i].subset = ""

C23_GrowthAfterItsHist ==
    ipc = "returned" =>
      LET n == Len(preprocessed)
          Hists == {i \in 1..n : preprocessed[i].kind = "Hist"}
      IN  /\ \A i \in 1..n :
                (preprocessed[i].kind = "Growth" /\ preprocessed[i].hist # "h.tsv") =>
                  \E h \in Hists :
                    /\ h < i
                    /\ preprocessed[h].name = preprocessed[i].hist
                    /\ \A k \in (h + 1)..(i - 1) :
                         /\ preprocessed[k].kind = "Growth"
                         /\ preprocessed[k].hist = preprocessed[i].hist
          /\ \A i, j \in Hists :
                (i < j /\ preprocessed[i].graph = preprocessed[j].graph) =>
                  cmp(preprocessed[i], preprocessed[j])

\* a returned list in which two Growths follow their Hist and another named
\* Hist follows them
C23_Witness ==
    /\ ipc = "returned"
    /\ \E i \in 1..Len(preprocessed) :
         /\ i + 3 <= Len(preprocessed)
         /\ preprocessed[i].kind = "Hist" /\ preprocessed[i].name = "A"
         /\ preprocessed[i + 1].kind = "Growth" /\ preprocessed[i + 1].hist = "A"
         /\ preprocessed[i + 2].kind = "Growth" /\ preprocessed[i + 2].hist = "A"
         /\ preprocessed[i + 3].kind = "Hist" /\ preprocessed[i + 3].name = "B"

\* C29: every turn of the loop of group_growths_to_hists either ends the call
\* with an error or leaves fewer Growths in front of the first Hist than it
\* found, so that the loop ends on every list.
C29_EachTurnReducesGrowths ==
    [][LET Before(list) ==
             Cardinality({i \in 1..Len(list) :
                            /\ list[i].kind = "Growth"
                            /\ \A j \in 1..(i - 1) : list[j].kind # "Hist"})
       IN  (ipc = "group" /\ has_ungrouped_growth(preprocessed)) =>
             \/ ipc' = "error"
             \/ /\ ipc' = "group"
                /\ Before(preprocessed') < Before(preprocessed)]_vars

\* the loop has grouped a Growth and finds another one ungrouped
C29_Witness ==
    /\ ipc = "group"
    /\ has_ungrouped_growth(preprocessed)
    /\ \E i, j \in 1..Len(preprocessed) :
         /\ i < j
         /\ preprocessed[i].kind = "Hist"
         /\ preprocessed[j].kind = "Growth"

\* C24: with node counting under an include mask, every token that update_tables
\* appended to the item table is completely covered by the include intervals of
\* its path.
C24_AppendedOnlyIfCovered ==
    (pc = "done" /\ route = "slow" /\ count = "Node" /\ has_include) =>
        \A k \in DOMAIN log :
            \A x \in log[k].p..(log[k].p + log[k].l - 1) :
                \E c \in Range(include_coords_of(buf)) : c[1] <= x /\ x < c[2]

C26_AnalysisOnItsBroker ==
    /\ tpc # "panic"
    /\ \A k \in DOMAIN trace :
          (trace[k].ev = "analysis" /\ trace[k].a.kind = "Hist") =>
              /\ trace[k].gb.some
              /\ trace[k].gb.files = {IF trace[k].a.graph = "A" THEN "a.gfa" ELSE "b.gfa"}
              /\ trace[k].gb.subset = trace[k].a.subset
              /\ trace[k].gb.exclude = trace[k].a.exclude
              /\ trace[k].gb.grouping = trace[k].a.grouping

\* C27: an analysis that follows change tasks runs on a finished GraphBroker,
\* finish() is called directly after the last change of a run of changes and
\* directly before the analysis, and nowhere else.
C27_FinishOncePerRun ==
    \A k \in DOMAIN trace :
        /\ trace[k].ev = "analysis" =>
              /\ k > 1 => trace[k - 1].ev \in {"finish", "analysis"}
              /\ trace[k].gb.some => trace[k].gb.finished
        /\ trace[k].ev = "finish" =>
              /\ k > 1
              /\ trace[k - 1].ev = "change"
              /\ k < Len(trace) => trace[k + 1].ev = "analysis"
        /\ (trace[k].ev = "change" /\ k < Len(trace)) =>
              trace[k + 1].ev \in {"change", "finish"}

\* two changes, one finish(), two analyses in a row, then the next graph
C27_Witness ==
    /\ Len(trace) >= 6
    /\ trace[1].ev = "change"
    /\ trace[2].ev = "change"
    /\ trace[3].ev = "finish"
    /\ trace[4].ev = "analysis"
    /\ trace[5].ev = "analysis"
    /\ trace[6].ev = "change"

\* C28: the JsVars of the rendered report hold the table of every section that
\* has one under "tables" and every item of every section under "datasets".
C28_TablesInDataHook ==
    (tpc = "done" /\ shall_write_html) =>
        \A i \in DOMAIN report :
            /\ report[i].table =>
                  /\ "tables" \in DOMAIN js_objects
                  /\ report[i].id \in js_objects["tables"]
            /\ \A k \in 1..report[i].items : <<report[i].id, k>> \in js_objects["datasets"]

====
